---- MODULE Spec2Model ----
(***************************************************************************)
(* A model of machparse: the byte-level lexer (lexer/lexer.go), the        *)
(* keyword table (token/keywords.go), the recursive-descent statement and  *)
(* precedence-climbing expression parser (parser/*.go) and the formatter   *)
(* (format).  Input text is a sequence of one-character strings; Go's      *)
(* 0-based input[i] is input[i+1] here.                                     *)
(***************************************************************************)
EXTENDS Integers, Sequences, FiniteSets, TLC

VARIABLES
    input,    \* the SQL text handed to the library
    lex,      \* the Lexer object driven directly by Next/Peek
    toks,     \* the tokens Next has returned so far
    out,      \* the outcome of the library call made on input
    visit,    \* the traversal (Walk or Rewrite) made on the parsed tree
    heap      \* the node pools of package ast and the threads that use them

vars == <<input, lex, toks, out, visit, heap>>

----------------------------------------------------------------------------
(* Characters                                                              *)

LowerSeq == <<"a","b","c","d","e","f","g","h","i","j","k","l","m",
              "n","o","p","q","r","s","t","u","v","w","x","y","z">>

UpperSeq == <<"A","B","C","D","E","F","G","H","I","J","K","L","M",
              "N","O","P","Q","R","S","T","U","V","W","X","Y","Z">>

LowerChars == {LowerSeq[i] : i \in 1..26}

UpperChars == {UpperSeq[i] : i \in 1..26}

isDigit(ch) == ch \in {"0","1","2","3","4","5","6","7","8","9"}

isIdentStart(ch) == ch \in LowerChars \/ ch \in UpperChars \/ ch = "_"

isIdentChar(ch) == isIdentStart(ch) \/ isDigit(ch) \/ ch = "$"

isTagChar(ch) == isIdentStart(ch) \/ isDigit(ch)

isHexDigit(ch) ==
    isDigit(ch) \/ ch \in {"a","b","c","d","e","f","A","B","C","D","E","F"}

ToLowerCh(c) ==
    IF c \in UpperChars THEN LowerSeq[CHOOSE i \in 1..26 : UpperSeq[i] = c] ELSE c

ToUpperCh(c) ==
    IF c \in LowerChars THEN UpperSeq[CHOOSE i \in 1..26 : LowerSeq[i] = c] ELSE c

ToLower(s) == [i \in 1..Len(s) |-> ToLowerCh(s[i])]

ToUpper(s) == [i \in 1..Len(s) |-> ToUpperCh(s[i])]

\* the backtick byte (the one byte a TLA+ string cannot hold)
Backtick == "BACKTICK"

\* s[a:b] of Go
Slice(s, a, b) == SubSeq(s, a + 1, b)

----------------------------------------------------------------------------
(* Keyword table: the rows of token.keywords for the words the modelled    *)
(* grammar reads.                                                          *)

keywords ==
    ( <<"s","e","l","e","c","t">> :> "SELECT" ) @@
    ( <<"w","h","e","r","e">> :> "WHERE" ) @@
    ( <<"a","n","d">> :> "AND" ) @@
    ( <<"o","r">> :> "OR" ) @@
    ( <<"x","o","r">> :> "XOR" ) @@
    ( <<"n","o","t">> :> "NOT" ) @@
    ( <<"i","s">> :> "IS" ) @@
    ( <<"n","u","l","l">> :> "NULL" ) @@
    ( <<"t","r","u","e">> :> "TRUE" ) @@
    ( <<"f","a","l","s","e">> :> "FALSE" ) @@
    ( <<"u","n","k","n","o","w","n">> :> "UNKNOWN" ) @@
    ( <<"a","s">> :> "AS" ) @@
    ( <<"a","l","l">> :> "ALL" ) @@
    ( <<"d","i","s","t","i","n","c","t">> :> "DISTINCT" ) @@
    ( <<"g","r","o","u","p">> :> "GROUP" ) @@
    ( <<"b","y">> :> "BY" ) @@
    ( <<"h","a","v","i","n","g">> :> "HAVING" ) @@
    ( <<"u","n","i","o","n">> :> "UNION" ) @@
    ( <<"i","n","t","e","r","s","e","c","t">> :> "INTERSECT" ) @@
    ( <<"e","x","c","e","p","t">> :> "EXCEPT" ) @@
    ( <<"b","e","t","w","e","e","n">> :> "BETWEEN" ) @@
    ( <<"s","y","m","m","e","t","r","i","c">> :> "SYMMETRIC" ) @@
    ( <<"a","s","y","m","m","e","t","r","i","c">> :> "ASYMMETRIC" ) @@
    ( <<"c","a","s","e">> :> "CASE" ) @@
    ( <<"w","h","e","n">> :> "WHEN" ) @@
    ( <<"t","h","e","n">> :> "THEN" ) @@
    ( <<"e","l","s","e">> :> "ELSE" ) @@
    ( <<"e","n","d">> :> "END" ) @@
    ( <<"f","r","o","m">> :> "FROM" ) @@
    ( <<"j","o","i","n">> :> "JOIN" ) @@
    ( <<"i","n","n","e","r">> :> "INNER" ) @@
    ( <<"l","e","f","t">> :> "LEFT" ) @@
    ( <<"r","i","g","h","t">> :> "RIGHT" ) @@
    ( <<"f","u","l","l">> :> "FULL" ) @@
    ( <<"o","u","t","e","r">> :> "OUTER" ) @@
    ( <<"c","r","o","s","s">> :> "CROSS" ) @@
    ( <<"n","a","t","u","r","a","l">> :> "NATURAL" ) @@
    ( <<"o","n">> :> "ON" ) @@
    ( <<"u","s","i","n","g">> :> "USING" ) @@
    ( <<"i","n","s","e","r","t">> :> "INSERT" ) @@
    ( <<"i","n","t","o">> :> "INTO" ) @@
    ( <<"v","a","l","u","e","s">> :> "VALUES" ) @@
    ( <<"d","e","f","a","u","l","t">> :> "DEFAULT" ) @@
    ( <<"t","r","u","n","c","a","t","e">> :> "TRUNCATE" ) @@
    ( <<"t","a","b","l","e">> :> "TABLE" ) @@
    ( <<"c","a","s","c","a","d","e">> :> "CASCADE" ) @@
    ( <<"c","o","l","l","a","t","e">> :> "COLLATE" )

KeywordTokens == {keywords[w] : w \in DOMAIN keywords}

MaxKeywordBuf == 32

isLowercase(s) == \A i \in 1..Len(s) : s[i] \notin UpperChars

LookupIdent(ident) ==
    IF isLowercase(ident)
    THEN IF ident \in DOMAIN keywords THEN keywords[ident] ELSE "IDENT"
    ELSE IF Len(ident) <= MaxKeywordBuf
         THEN IF ToLower(ident) \in DOMAIN keywords
              THEN keywords[ToLower(ident)] ELSE "IDENT"
         ELSE "IDENT"

\* token.IsKeyword(ident string)
IsKeywordText(ident) == LookupIdent(ident) # "IDENT"

\* Token.IsKeyword()
IsKeyword(t) == t \in KeywordTokens

----------------------------------------------------------------------------
(* Lexer                                                                   *)

\* a local variable: x is computed once and Body reads it as its parameter
Let(x, Body(_)) == Body(x)

NoItem == [Type |-> "ILLEGAL", Value |-> <<>>,
           Pos |-> [Offset |-> 0, Line |-> 0, Column |-> 0]]

\* lexer.New / Lexer.Reset
NewLexer(inp) ==
    [input |-> inp, start |-> 0, pos |-> 0, line |-> 1, linePos |-> 0,
     item |-> NoItem, peeked |-> FALSE]

makeItem(l, typ, val) ==
    [Type |-> typ, Value |-> val,
     Pos |-> [Offset |-> l.start, Line |-> l.line,
              Column |-> l.start - l.linePos + 1]]

\* a scanner's result: the lexer after the scan and the item it made
Tok(l, typ, val) == [l |-> l, item |-> makeItem(l, typ, val)]

Bump(l, n) == [l EXCEPT !.pos = @ + n]

More(l) == l.pos < Len(l.input)

Cur(l) == l.input[l.pos + 1]

HasAt(l, d) == l.pos + d < Len(l.input)

ChAt(l, d) == l.input[l.pos + d + 1]

Text(l) == Slice(l.input, l.start, l.pos)

\* the newline bookkeeping the quoted scanners share: l.line++, l.linePos = l.pos+1
NewlineAt(l) ==
    IF Cur(l) = "\n" THEN [l EXCEPT !.line = @ + 1, !.linePos = l.pos + 1] ELSE l

RECURSIVE skipWhitespace(_)
skipWhitespace(l) ==
    IF More(l)
    THEN IF Cur(l) \in {" ", "\t", "\r"} THEN skipWhitespace(Bump(l, 1))
         ELSE IF Cur(l) = "\n"
              THEN skipWhitespace([l EXCEPT !.pos = @ + 1, !.line = @ + 1,
                                            !.linePos = l.pos + 1])
              ELSE l
    ELSE l

RECURSIVE skipIdentChars(_)
skipIdentChars(l) ==
    IF More(l) /\ isIdentChar(Cur(l)) THEN skipIdentChars(Bump(l, 1)) ELSE l

RECURSIVE skipDigits(_)
skipDigits(l) ==
    IF More(l) /\ isDigit(Cur(l)) THEN skipDigits(Bump(l, 1)) ELSE l

RECURSIVE skipHexDigits(_)
skipHexDigits(l) ==
    IF More(l) /\ isHexDigit(Cur(l)) THEN skipHexDigits(Bump(l, 1)) ELSE l

RECURSIVE skipTagChars(_)
skipTagChars(l) ==
    IF More(l) /\ isTagChar(Cur(l)) THEN skipTagChars(Bump(l, 1)) ELSE l

RECURSIVE skipToNewline(_)
skipToNewline(l) ==
    IF More(l) /\ Cur(l) # "\n" THEN skipToNewline(Bump(l, 1)) ELSE l

scanIdentifier(l) ==
    Let(skipIdentChars(l), LAMBDA l1 :
    Let(Text(l1), LAMBDA text : Tok(l1, LookupIdent(text), text)))

scanNumber(l) ==
    IF HasAt(l, 1) /\ Cur(l) = "0" /\ ChAt(l, 1) \in {"x", "X"}
    THEN Let(skipHexDigits(Bump(l, 2)), LAMBDA l1 : Tok(l1, "INT", Text(l1)))
    ELSE
    Let(skipDigits(l), LAMBDA l1 :
    IF More(l1) /\ Cur(l1) = "." /\ HasAt(l1, 1) /\ ChAt(l1, 1) = "."
    THEN Tok(l1, "INT", Text(l1))
    ELSE
    Let(More(l1) /\ Cur(l1) = ".", LAMBDA frac :
    Let(IF frac THEN skipDigits(Bump(l1, 1)) ELSE l1, LAMBDA l2 :
    Let(More(l2) /\ Cur(l2) \in {"e", "E"}, LAMBDA expo :
    Let(IF expo THEN Bump(l2, 1) ELSE l2, LAMBDA l3 :
    Let(IF expo /\ More(l3) /\ Cur(l3) \in {"+", "-"} THEN Bump(l3, 1) ELSE l3,
        LAMBDA l4 :
    Let(IF expo THEN skipDigits(l4) ELSE l4, LAMBDA l5 :
    Tok(l5, IF frac \/ expo THEN "FLOAT" ELSE "INT", Text(l5)))))))))

\* what scanString appends for the byte after a backslash
Unescape(next) ==
    CASE next = "n" -> <<"\n">>
      [] next = "t" -> <<"\t">>
      [] next = "r" -> <<"\r">>
      [] next = "\\" -> <<"\\">>
      [] next = "'" -> <<"'">>
      [] next = "\"" -> <<"\"">>
      [] OTHER -> <<"\\", next>>

\* the construct's text without its opening byte
TextAfterOpener(l) == Slice(l.input, l.start + 1, l.pos)

\* l.input[l.start:l.pos] of an unterminated construct
UnterminatedText(l) == Text(l)

RECURSIVE scanStringLoop(_, _, _)
scanStringLoop(l, quote, buf) ==
    IF More(l)
    THEN IF Cur(l) = quote
         THEN IF HasAt(l, 1) /\ ChAt(l, 1) = quote
              THEN scanStringLoop(Bump(l, 2), quote, Append(buf, quote))
              ELSE Tok(Bump(l, 1), "STRING", buf)
         ELSE IF Cur(l) = "\\" /\ HasAt(l, 1)
              THEN scanStringLoop(Bump(l, 2), quote, buf \o Unescape(ChAt(l, 1)))
              ELSE scanStringLoop(Bump(NewlineAt(l), 1), quote, Append(buf, Cur(l)))
    ELSE Tok(l, "ILLEGAL", UnterminatedText(l))

scanString(l, quote) == scanStringLoop(Bump(l, 1), quote, <<>>)

RECURSIVE scanQuotedIdentifierLoop(_, _)
scanQuotedIdentifierLoop(l, buf) ==
    IF More(l)
    THEN IF Cur(l) = "\""
         THEN IF HasAt(l, 1) /\ ChAt(l, 1) = "\""
              THEN scanQuotedIdentifierLoop(Bump(l, 2), Append(buf, "\""))
              ELSE Tok(Bump(l, 1), "IDENT", buf)
         ELSE scanQuotedIdentifierLoop(Bump(NewlineAt(l), 1), Append(buf, Cur(l)))
    ELSE Tok(l, "ILLEGAL", UnterminatedText(l))

scanQuotedIdentifier(l) == scanQuotedIdentifierLoop(Bump(l, 1), <<>>)

\* shared by the backtick and the bracket scanner: the value is the raw text
\* between the delimiters, a doubled closer is skipped
RECURSIVE scanRawQuotedLoop(_, _)
scanRawQuotedLoop(l, close) ==
    IF More(l)
    THEN IF Cur(l) = close
         THEN IF HasAt(l, 1) /\ ChAt(l, 1) = close
              THEN scanRawQuotedLoop(Bump(l, 2), close)
              ELSE Tok(Bump(l, 1), "IDENT", Slice(l.input, l.start + 1, l.pos))
         ELSE scanRawQuotedLoop(Bump(NewlineAt(l), 1), close)
    ELSE Tok(l, "ILLEGAL", UnterminatedText(l))

scanBacktickIdentifier(l) == scanRawQuotedLoop(Bump(l, 1), Backtick)

scanBracketIdentifier(l) == scanRawQuotedLoop(Bump(l, 1), "]")

scanBracketOrLBracket(l) ==
    IF HasAt(l, 1) /\ (isIdentStart(ChAt(l, 1)) \/ ChAt(l, 1) \in {"#", "@"})
    THEN scanBracketIdentifier(l)
    ELSE Tok(Bump(l, 1), "LBRACKET", <<"[">>)

scanLineComment(l) ==
    Let(skipToNewline(Bump(l, 1)), LAMBDA l1 : Tok(l1, "COMMENT", Text(l1)))

RECURSIVE scanBlockCommentLoop(_)
scanBlockCommentLoop(l) ==
    IF More(l)
    THEN IF Cur(l) = "*" /\ HasAt(l, 1) /\ ChAt(l, 1) = "/"
         THEN Let(Bump(l, 2), LAMBDA l1 : Tok(l1, "COMMENT", Text(l1)))
         ELSE scanBlockCommentLoop(Bump(NewlineAt(l), 1))
    ELSE Tok(l, "ILLEGAL", UnterminatedText(l))

scanBlockComment(l) == scanBlockCommentLoop(Bump(l, 1))

scanMinus(l) ==
    Let(Bump(l, 1), LAMBDA l1 :
    IF More(l1) /\ Cur(l1) = "-" THEN scanLineComment(l1)
    ELSE IF More(l1) /\ Cur(l1) = ">"
         THEN IF HasAt(l1, 1) /\ ChAt(l1, 1) = ">"
              THEN Tok(Bump(l1, 2), "DARROW", <<"-", ">", ">">>)
              ELSE Tok(Bump(l1, 1), "ARROW", <<"-", ">">>)
         ELSE Tok(l1, "MINUS", <<"-">>))

scanSlash(l) ==
    Let(Bump(l, 1), LAMBDA l1 :
    IF More(l1) /\ Cur(l1) = "*" THEN scanBlockComment(l1)
    ELSE Tok(l1, "SLASH", <<"/">>))

scanLessThan(l) ==
    Let(Bump(l, 1), LAMBDA l1 :
    IF More(l1) /\ Cur(l1) = "=" THEN Tok(Bump(l1, 1), "LTE", <<"<", "=">>)
    ELSE IF More(l1) /\ Cur(l1) = ">" THEN Tok(Bump(l1, 1), "NEQ", <<"<", ">">>)
    ELSE IF More(l1) /\ Cur(l1) = "<" THEN Tok(Bump(l1, 1), "LSHIFT", <<"<", "<">>)
    ELSE Tok(l1, "LT", <<"<">>))

scanGreaterThan(l) ==
    Let(Bump(l, 1), LAMBDA l1 :
    IF More(l1) /\ Cur(l1) = "=" THEN Tok(Bump(l1, 1), "GTE", <<">", "=">>)
    ELSE IF More(l1) /\ Cur(l1) = ">" THEN Tok(Bump(l1, 1), "RSHIFT", <<">", ">">>)
    ELSE Tok(l1, "GT", <<">">>))

scanBang(l) ==
    Let(Bump(l, 1), LAMBDA l1 :
    IF More(l1) /\ Cur(l1) = "=" THEN Tok(Bump(l1, 1), "NEQ", <<"!", "=">>)
    ELSE Tok(l1, "ILLEGAL", <<"!">>))

scanPipe(l) ==
    Let(Bump(l, 1), LAMBDA l1 :
    IF More(l1) /\ Cur(l1) = "|" THEN Tok(Bump(l1, 1), "CONCAT", <<"|", "|">>)
    ELSE Tok(l1, "BITOR", <<"|">>))

scanQuestion(l) ==
    Let(Bump(l, 1), LAMBDA l1 :
    IF More(l1) /\ Cur(l1) = "|" THEN Tok(Bump(l1, 1), "QUESTIONOR", <<"?", "|">>)
    ELSE IF More(l1) /\ Cur(l1) = "&"
         THEN Tok(Bump(l1, 1), "QUESTIONAND", <<"?", "&">>)
         ELSE Tok(l1, "PARAM", <<"?">>))

RECURSIVE scanDollarQuotedLoop(_, _, _)
scanDollarQuotedLoop(l, endDelim, contentStart) ==
    IF More(l)
    THEN IF Cur(l) = "$" /\ l.pos + Len(endDelim) <= Len(l.input)
            /\ Slice(l.input, l.pos, l.pos + Len(endDelim)) = endDelim
         THEN Tok(Bump(l, Len(endDelim)), "STRING",
                  Slice(l.input, contentStart, l.pos))
         ELSE scanDollarQuotedLoop(Bump(NewlineAt(l), 1), endDelim, contentStart)
    ELSE Tok(l, "ILLEGAL", UnterminatedText(l))

scanDollarQuotedStringContent(l, tag) ==
    scanDollarQuotedLoop(l, <<"$">> \o tag \o <<"$">>, l.pos)

\* a back-up that returns to the beginning of the input
NotDollarQuotedRewind(l) == [l EXCEPT !.pos = 0]

\* a back-up that returns to the `$` itself
NotDollarQuotedStay(l) == [l EXCEPT !.pos = l.start]

\* scanDollar's back-up when `$tag` is not followed by `$`: l.pos = l.start + 1
NotDollarQuoted(l) == [l EXCEPT !.pos = l.start + 1]

scanDollar(l) ==
    Let(Bump(l, 1), LAMBDA l1 :
    IF More(l1) /\ isDigit(Cur(l1))
    THEN Let(skipDigits(l1), LAMBDA l2 : Tok(l2, "PARAM", Text(l2)))
    ELSE IF More(l1)
    THEN IF Cur(l1) = "$" THEN scanDollarQuotedStringContent(Bump(l1, 1), <<>>)
         ELSE IF isIdentStart(Cur(l1))
              THEN Let(skipTagChars(l1), LAMBDA l2 :
                   IF More(l2) /\ Cur(l2) = "$"
                   THEN scanDollarQuotedStringContent(
                            Bump(l2, 1), Slice(l.input, l1.pos, l2.pos))
                   ELSE Tok(NotDollarQuoted(l2), "ILLEGAL", <<"$">>))
              ELSE Tok(l1, "ILLEGAL", <<"$">>)
    ELSE Tok(l1, "ILLEGAL", <<"$">>))

scanColon(l) ==
    Let(Bump(l, 1), LAMBDA l1 :
    IF More(l1) /\ Cur(l1) = ":" THEN Tok(Bump(l1, 1), "DCOLON", <<":", ":">>)
    ELSE IF More(l1) /\ isIdentStart(Cur(l1))
         THEN Let(skipIdentChars(l1), LAMBDA l2 : Tok(l2, "PARAM", Text(l2)))
         ELSE Tok(l1, "COLON", <<":">>))

scanHashComment(l) ==
    Let(skipToNewline(l), LAMBDA l1 : Tok(l1, "COMMENT", Text(l1)))

\* a scanHash without the `#>` and `#>>` operators
scanHashNoOperators(l) ==
    Let(Bump(l, 1), LAMBDA l1 :
    IF ~More(l1) THEN scanHashComment(l1)
    ELSE IF Cur(l1) = "#"
    THEN Let(Bump(l1, 1), LAMBDA l2 :
         IF More(l2) /\ isIdentStart(Cur(l2))
         THEN Let(skipIdentChars(l2), LAMBDA l3 : Tok(l3, "IDENT", Text(l3)))
         ELSE scanHashComment(Bump(l2, -2)))
    ELSE IF isIdentStart(Cur(l1))
         THEN Let(skipIdentChars(l1), LAMBDA l2 : Tok(l2, "IDENT", Text(l2)))
         ELSE scanHashComment(l1))

scanHash(l) ==
    Let(Bump(l, 1), LAMBDA l1 :
    IF ~More(l1) THEN scanHashComment(l1)
    ELSE IF Cur(l1) = ">"
    THEN IF HasAt(l1, 1) /\ ChAt(l1, 1) = ">"
         THEN Tok(Bump(l1, 2), "HASHDGT", <<"#", ">", ">">>)
         ELSE Tok(Bump(l1, 1), "HASHGT", <<"#", ">">>)
    ELSE IF Cur(l1) = "#"
    THEN Let(Bump(l1, 1), LAMBDA l2 :
         IF More(l2) /\ isIdentStart(Cur(l2))
         THEN Let(skipIdentChars(l2), LAMBDA l3 : Tok(l3, "IDENT", Text(l3)))
         ELSE scanHashComment(Bump(l2, -2)))
    ELSE IF isIdentStart(Cur(l1))
         THEN Let(skipIdentChars(l1), LAMBDA l2 : Tok(l2, "IDENT", Text(l2)))
         ELSE scanHashComment(l1))

scanAt(l) ==
    Let(Bump(l, 1), LAMBDA l1 :
    IF More(l1) /\ Cur(l1) = "@" THEN Tok(Bump(l1, 1), "ATAT", <<"@", "@">>)
    ELSE IF More(l1) /\ isIdentStart(Cur(l1))
         THEN Let(skipIdentChars(l1), LAMBDA l2 : Tok(l2, "PARAM", Text(l2)))
         ELSE Tok(l1, "AT", <<"@">>))

SingleCharTokens ==
    ( "(" :> "LPAREN" ) @@ ( ")" :> "RPAREN" ) @@ ( "]" :> "RBRACKET" ) @@
    ( "," :> "COMMA" ) @@ ( ";" :> "SEMICOLON" ) @@ ( "+" :> "PLUS" ) @@
    ( "*" :> "ASTERISK" ) @@ ( "%" :> "PERCENT" ) @@ ( "~" :> "BITNOT" ) @@
    ( "^" :> "BITXOR" ) @@ ( "=" :> "EQ" ) @@ ( "&" :> "BITAND" )

scan(l0) ==
    Let(skipWhitespace(l0), LAMBDA lw :
    Let([lw EXCEPT !.start = lw.pos], LAMBDA l :
    IF ~More(l) THEN Tok(l, "EOF", <<>>)
    ELSE Let(Cur(l), LAMBDA ch :
    IF ch \in DOMAIN SingleCharTokens
    THEN Tok(Bump(l, 1), SingleCharTokens[ch], <<ch>>)
    ELSE CASE ch = "[" -> scanBracketOrLBracket(l)
           [] ch = "@" -> scanAt(l)
           [] ch = "." -> IF HasAt(l, 1) /\ isDigit(ChAt(l, 1)) THEN scanNumber(l)
                          ELSE Tok(Bump(l, 1), "DOT", <<".">>)
           [] ch = "-" -> scanMinus(l)
           [] ch = "/" -> scanSlash(l)
           [] ch = "'" -> scanString(l, "'")
           [] ch = "\"" -> scanQuotedIdentifier(l)
           [] ch = Backtick -> scanBacktickIdentifier(l)
           [] ch = "<" -> scanLessThan(l)
           [] ch = ">" -> scanGreaterThan(l)
           [] ch = "!" -> scanBang(l)
           [] ch = "|" -> scanPipe(l)
           [] ch = "?" -> scanQuestion(l)
           [] ch = "$" -> scanDollar(l)
           [] ch = ":" -> scanColon(l)
           [] ch = "#" -> scanHash(l)
           [] OTHER -> IF isIdentStart(ch) THEN scanIdentifier(l)
                       ELSE IF isDigit(ch) THEN scanNumber(l)
                       ELSE Tok(Bump(l, 1), "ILLEGAL", <<ch>>))))

\* a Next that scans although a peeked item is waiting
LexNextRescan(l) ==
    Let(scan(l), LAMBDA r :
    [l |-> [r.l EXCEPT !.item = r.item, !.peeked = FALSE], item |-> r.item])

\* Lexer.Next: the lexer afterwards and the item returned
LexNext(l) ==
    IF l.peeked THEN [l |-> [l EXCEPT !.peeked = FALSE], item |-> l.item]
    ELSE Let(scan(l), LAMBDA r :
         [l |-> [r.l EXCEPT !.item = r.item], item |-> r.item])

\* Lexer.Peek
LexPeek(l) ==
    IF ~l.peeked
    THEN Let(scan(l), LAMBDA r :
         [l |-> [r.l EXCEPT !.item = r.item, !.peeked = TRUE], item |-> r.item])
    ELSE [l |-> l, item |-> l.item]

----------------------------------------------------------------------------
(* AST values.  A node is a record with a kind k.  Go distinguishes a nil  *)
(* interface from an interface holding a nil pointer: Nil is the former,   *)
(* NilPtr(t) the latter (a nil *t).                                        *)

Nil == [k |-> "nil"]

NilPtr(t) == [k |-> "nilptr", t |-> t]

\* parser.isNilExpr
isNilExpr(e) == e.k \in {"nil", "nilptr"}

\* what a production returns: the parser afterwards and its result
Ret(p, n) == [p |-> p, n |-> n]

----------------------------------------------------------------------------
(* Parser: token navigation                                                *)

RECURSIVE Call(_, _, _)

advance(p) ==
    Let(Call("Next", p.lexer, 0), LAMBDA r : [p EXCEPT !.lexer = r.l, !.cur = r.item])

\* &Lexer{} and &Parser{}, what the pools' New functions return
ZeroLexer ==
    [input |-> <<>>, start |-> 0, pos |-> 0, line |-> 0, linePos |-> 0,
     item |-> NoItem, peeked |-> FALSE]

ZeroParser == [lexer |-> Nil, errors |-> <<>>, cur |-> NoItem, panicked |-> FALSE]

\* a Reset that leaves the lookahead of the previous input in place
ResetKeepPeeked(l, inp) ==
    [l EXCEPT !.input = inp, !.start = 0, !.pos = 0, !.line = 1, !.linePos = 0]

\* Lexer.Reset
Reset(l, inp) ==
    [l EXCEPT !.input = inp, !.start = 0, !.pos = 0, !.line = 1, !.linePos = 0,
              !.item = NoItem, !.peeked = FALSE]

\* lexer.Get on the Lexer l the pool handed out
LexerGet(l, inp) == Reset(l, inp)

\* parser.Get on the Parser p and the Lexer l the pools handed out
ParserGet(p, l, inp) ==
    advance([p EXCEPT !.lexer = LexerGet(l, inp), !.errors = SubSeq(@, 1, 0),
                      !.cur = NoItem])

\* parser.Put: the Parser as it enters the pool, its lexer being put apart
ParserPut(p) == [p EXCEPT !.lexer = Nil]

\* parser.New
NewParser(inp) ==
    advance([lexer |-> NewLexer(inp), errors |-> <<>>, cur |-> NoItem,
             panicked |-> FALSE])

curIs(p, t) == p.cur.Type = t

curIsIdent(p) == p.cur.Type = "IDENT" \/ IsKeyword(p.cur.Type)

\* Parser.peek: the lexer scans ahead and keeps the item
peeking(p) == [p EXCEPT !.lexer = Call("Peek", p.lexer, 0).l]

peekIs(p, t) == Call("Peek", p.lexer, 0).item.Type = t

errorf(p, msg) ==
    [p EXCEPT !.errors = Append(@, [Pos |-> p.cur.Pos, Message |-> msg])]

\* Parser.expect: n is the boolean it returns
expect(p, t) ==
    IF curIs(p, t) THEN Ret(advance(p), TRUE)
    ELSE Ret(errorf(p, <<"expected", t, "got", p.cur.Type>>), FALSE)

RECURSIVE skipComments(_)
skipComments(p) == IF curIs(p, "COMMENT") THEN skipComments(advance(p)) ELSE p

----------------------------------------------------------------------------
(* Expression parser                                                       *)

precLowest == 0
precOr == 1
precXor == 2
precAnd == 3
precNot == 4
precComparison == 5
precBitOr == 6
precBitXor == 7
precBitAnd == 8
precShift == 9
precAdditive == 10
precMultiply == 11
precUnary == 12

precedence(t) ==
    CASE t = "OR" -> precOr
      [] t = "XOR" -> precXor
      [] t = "AND" -> precAnd
      [] t \in {"EQ", "NEQ", "LT", "GT", "LTE", "GTE"} -> precComparison
      [] t = "BITOR" -> precBitOr
      [] t = "BITXOR" -> precBitXor
      [] t = "BITAND" -> precBitAnd
      [] t \in {"LSHIFT", "RSHIFT"} -> precShift
      [] t \in {"PLUS", "MINUS", "CONCAT"} -> precAdditive
      [] t \in {"ASTERISK", "SLASH", "PERCENT"} -> precMultiply
      [] OTHER -> precLowest

isBinaryOp(t) ==
    t \in {"PLUS", "MINUS", "ASTERISK", "SLASH", "PERCENT",
           "EQ", "NEQ", "LT", "GT", "LTE", "GTE", "AND", "OR", "XOR",
           "BITAND", "BITOR", "BITXOR", "LSHIFT", "RSHIFT", "CONCAT"}

\* the minimum level parseExprPrec passes down for a binary operator's right side
RightMinPrecSame(prec) == prec

RightMinPrec(prec) == prec + 1

RECURSIVE parseExprLoop(_, _, _)
RECURSIVE parseExprListLoop(_, _)
RECURSIVE parseFuncArgs(_, _)
RECURSIVE parseSetOpLoop(_)

parseExpr(p) == Call("parseExprPrec", p, precLowest)

parseLiteral(p, litType) ==
    Ret(advance(p), [k |-> "Literal", Type |-> litType, Value |-> p.cur.Value])

KeywordLiteral(p, litType, val) ==
    Ret(advance(p), [k |-> "Literal", Type |-> litType, Value |-> val])

parseFuncArgs(p, args) ==
    Let(parseExpr(p), LAMBDA r :
    IF r.n = Nil THEN Ret(r.p, args)
    ELSE IF ~curIs(r.p, "COMMA") THEN Ret(r.p, Append(args, r.n))
         ELSE parseFuncArgs(advance(r.p), Append(args, r.n)))

\* the argument list of a call, p at the token after `(` and DISTINCT
parseFuncCallArgs(p2) ==
    IF curIs(p2, "RPAREN") THEN Ret(p2, <<>>)
    ELSE IF curIs(p2, "ASTERISK")
         THEN Ret(advance(p2), <<[k |-> "StarExpr", TableName |-> <<>>,
                                  HasQualifier |-> FALSE]>>)
         ELSE parseFuncArgs(p2, <<>>)

parseFuncCall(p0, name) ==
    Let(advance(p0), LAMBDA p1 :
    Let(curIs(p1, "DISTINCT"), LAMBDA distinct :
    Let(IF distinct THEN advance(p1) ELSE p1, LAMBDA p2 :
    Let(parseFuncCallArgs(p2), LAMBDA a :
    Let(expect(a.p, "RPAREN"), LAMBDA e :
    IF ~e.n THEN Ret(e.p, NilPtr("FuncExpr"))
    ELSE Ret(e.p, [k |-> "FuncExpr", Name |-> ToUpper(name),
                   Distinct |-> distinct, Args |-> a.n]))))))

RECURSIVE parseIdentParts(_, _)
parseIdentParts(p, parts) ==
    IF ~curIs(p, "DOT") THEN Ret(p, [k |-> "ColName", Parts |-> parts])
    ELSE Let(advance(p), LAMBDA p1 :
         IF curIs(p1, "ASTERISK")
         THEN Ret(advance(p1), [k |-> "StarExpr", TableName |-> parts[Len(parts)],
                                HasQualifier |-> TRUE])
         ELSE IF ~curIs(p1, "IDENT") /\ ~IsKeyword(p1.cur.Type)
              THEN Ret(errorf(p1, <<"expected identifier after '.'">>), Nil)
              ELSE parseIdentParts(advance(p1), Append(parts, p1.cur.Value)))

parseIdentifierOrFunc(p) ==
    Let(advance(p), LAMBDA p1 :
    IF curIs(p1, "LPAREN") THEN parseFuncCall(p1, p.cur.Value)
    ELSE parseIdentParts(p1, <<p.cur.Value>>))

UnaryExpr(op, operand) == [k |-> "UnaryExpr", Op |-> op, Operand |-> operand]

parseNotExpr(p) ==
    Let(Call("parseExprPrec", advance(p), precNot), LAMBDA r :
    Ret(r.p, UnaryExpr("NOT", r.n)))

parseUnaryMinus(p) ==
    Let(Call("parseExprPrec", advance(p), precUnary), LAMBDA r :
    Ret(r.p, UnaryExpr("MINUS", r.n)))

parseUnaryBitnot(p) ==
    Let(Call("parseExprPrec", advance(p), precUnary), LAMBDA r :
    Ret(r.p, UnaryExpr("BITNOT", r.n)))

parseParenOrSubquery(p0) ==
    Let(advance(p0), LAMBDA p1 :
    IF curIs(p1, "SELECT")
    THEN Let(Call("parseSelect", p1, precLowest), LAMBDA s :
         Let(expect(s.p, "RPAREN"), LAMBDA e :
         IF ~e.n THEN Ret(e.p, Nil)
         ELSE Ret(e.p, [k |-> "Subquery", Select |-> s.n])))
    ELSE Let(parseExpr(p1), LAMBDA r :
         Let(expect(r.p, "RPAREN"), LAMBDA e :
         IF ~e.n THEN Ret(e.p, Nil)
         ELSE Ret(e.p, [k |-> "ParenExpr", Expr |-> r.n]))))

\* the WHEN loop of parseCaseExpr: n.ok is FALSE when THEN is missing
RECURSIVE parseWhens(_, _)
parseWhens(p, whens) ==
    IF ~curIs(p, "WHEN") THEN Ret(p, [ok |-> TRUE, whens |-> whens])
    ELSE Let(parseExpr(advance(p)), LAMBDA cond :
         Let(expect(cond.p, "THEN"), LAMBDA e :
         IF ~e.n THEN Ret(e.p, [ok |-> FALSE, whens |-> whens])
         ELSE Let(parseExpr(e.p), LAMBDA result :
              parseWhens(result.p,
                         Append(whens, [Cond |-> cond.n, Result |-> result.n])))))

parseCaseExpr(p0) ==
    Let(advance(p0), LAMBDA p1 :
    Let(IF ~curIs(p1, "WHEN") THEN parseExpr(p1) ELSE Ret(p1, Nil), LAMBDA operand :
    Let(parseWhens(operand.p, <<>>), LAMBDA w :
    IF ~w.n.ok THEN Ret(w.p, NilPtr("CaseExpr"))
    ELSE Let(IF curIs(w.p, "ELSE") THEN parseExpr(advance(w.p)) ELSE Ret(w.p, Nil),
             LAMBDA else :
         Let(expect(else.p, "END"), LAMBDA e :
         IF ~e.n THEN Ret(e.p, NilPtr("CaseExpr"))
         ELSE Ret(e.p, [k |-> "CaseExpr", Operand |-> operand.n,
                        Whens |-> w.n.whens, Else |-> else.n]))))))

parsePrimaryExpr(p0) ==
    Let(skipComments(p0), LAMBDA p :
    Let(p.cur.Type, LAMBDA t :
       CASE t = "INT" -> parseLiteral(p, "LiteralInt")
         [] t = "FLOAT" -> parseLiteral(p, "LiteralFloat")
         [] t = "STRING" -> parseLiteral(p, "LiteralString")
         [] t = "NULL" -> KeywordLiteral(p, "LiteralNull", <<"N","U","L","L">>)
         [] t = "TRUE" -> KeywordLiteral(p, "LiteralBool", <<"T","R","U","E">>)
         [] t = "FALSE" -> KeywordLiteral(p, "LiteralBool", <<"F","A","L","S","E">>)
         [] t = "IDENT" -> parseIdentifierOrFunc(p)
         [] t = "LPAREN" -> parseParenOrSubquery(p)
         [] t = "NOT" -> parseNotExpr(p)
         [] t = "MINUS" -> parseUnaryMinus(p)
         [] t = "BITNOT" -> parseUnaryBitnot(p)
         [] t = "CASE" -> parseCaseExpr(p)
         [] t = "DEFAULT" -> KeywordLiteral(p, "LiteralNull", <<"D","E","F","A","U","L","T">>)
         [] t = "ASTERISK" -> Ret(advance(p), [k |-> "StarExpr", TableName |-> <<>>,
                                               HasQualifier |-> FALSE])
         [] OTHER -> IF IsKeyword(t) THEN parseIdentifierOrFunc(p)
                     ELSE Ret(errorf(p, <<"unexpected token", t, "in expression">>), Nil)))

\* the switch of parseIsExpr on the token after IS [NOT]
IsWhat(t) ==
    CASE t = "NULL" -> "IsNull" [] t = "TRUE" -> "IsTrue"
      [] t = "FALSE" -> "IsFalse" [] t = "UNKNOWN" -> "IsUnknown"
      [] OTHER -> "IsNull"

parseIsExpr(p0, left) ==
    Let(advance(p0), LAMBDA p1 :
    Let(curIs(p1, "NOT"), LAMBDA not :
    Let(IF not THEN advance(p1) ELSE p1, LAMBDA p2 :
    Let(IF p2.cur.Type \in {"NULL", "TRUE", "FALSE", "UNKNOWN"} THEN p2
        ELSE errorf(p2, <<"expected NULL, TRUE, FALSE, or UNKNOWN after IS">>),
        LAMBDA p3 :
    Ret(advance(p3), [k |-> "IsExpr", Expr |-> left, Not |-> not,
                      What |-> IsWhat(p2.cur.Type)])))))

parseCollateExpr(p0, left) ==
    Let(advance(p0), LAMBDA p1 :
    Let(curIs(p1, "IDENT") \/ curIs(p1, "STRING"), LAMBDA has :
    Ret(IF has THEN advance(p1) ELSE p1,
        [k |-> "CollateExpr", Expr |-> left,
         Collation |-> IF has THEN p1.cur.Value ELSE <<>>])))

\* the level parseBetweenExpr parses both bounds at
BetweenBoundPrecLowest == precLowest

BetweenBoundPrec == precComparison + 1

parseBetweenExpr(p0, left, not) ==
    Let(advance(p0), LAMBDA p1 :
    Let(IF curIs(p1, "SYMMETRIC") \/ curIs(p1, "ASYMMETRIC") THEN advance(p1) ELSE p1,
        LAMBDA p2 :
    Let(Call("parseExprPrec", p2, BetweenBoundPrec), LAMBDA low :
    Let(expect(low.p, "AND"), LAMBDA e :
    IF ~e.n THEN Ret(e.p, NilPtr("BetweenExpr"))
    ELSE Let(Call("parseExprPrec", e.p, BetweenBoundPrec), LAMBDA high :
         Ret(high.p, [k |-> "BetweenExpr", Expr |-> left, Not |-> not,
                      Low |-> low.n, High |-> high.n]))))))

BinaryExpr(op, left, right) ==
    [k |-> "BinaryExpr", Op |-> op, Left |-> left, Right |-> right]

\* the for loop of parseExprPrec
parseExprLoop(p, left, minPrec) ==
    Let(p.cur.Type, LAMBDA op :
    IF op = "IS"
    THEN IF isNilExpr(left) THEN Ret(p, Nil)
         ELSE Let(parseIsExpr(p, left), LAMBDA r :
              IF isNilExpr(r.n) THEN Ret(r.p, Nil)
              ELSE parseExprLoop(r.p, r.n, minPrec))
    ELSE IF op = "COLLATE"
    THEN IF isNilExpr(left) THEN Ret(p, Nil)
         ELSE Let(parseCollateExpr(p, left), LAMBDA r :
              IF isNilExpr(r.n) THEN Ret(r.p, Nil)
              ELSE parseExprLoop(r.p, r.n, minPrec))
    ELSE IF op = "NOT" /\ peekIs(p, "BETWEEN")
    THEN IF isNilExpr(left) THEN Ret(peeking(p), Nil)
         ELSE Let(parseBetweenExpr(advance(peeking(p)), left, TRUE), LAMBDA r :
              IF isNilExpr(r.n) THEN Ret(r.p, Nil)
              ELSE parseExprLoop(r.p, r.n, minPrec))
    ELSE IF op = "BETWEEN"
    THEN IF isNilExpr(left) THEN Ret(p, Nil)
         ELSE Let(parseBetweenExpr(p, left, FALSE), LAMBDA r :
              IF isNilExpr(r.n) THEN Ret(r.p, Nil)
              ELSE parseExprLoop(r.p, r.n, minPrec))
    ELSE Let(IF op = "NOT" THEN peeking(p) ELSE p, LAMBDA pk :
         Let(precedence(op), LAMBDA prec :
         IF prec < minPrec \/ ~isBinaryOp(op) THEN Ret(pk, left)
         ELSE Let(Call("parseExprPrec", advance(pk), RightMinPrec(prec)), LAMBDA r :
              IF r.n = Nil THEN Ret(r.p, Nil)
              ELSE parseExprLoop(r.p, BinaryExpr(op, left, r.n), minPrec)))))

parseExprPrec(p, minPrec) ==
    Let(Call("parsePrimaryExpr", p, precLowest), LAMBDA r :
    IF r.n = Nil THEN Ret(r.p, Nil) ELSE parseExprLoop(r.p, r.n, minPrec))

parseExprListLoop(p, exprs) ==
    Let(parseExpr(p), LAMBDA r :
    IF r.n = Nil THEN Ret(r.p, exprs)
    ELSE IF ~curIs(r.p, "COMMA") THEN Ret(r.p, Append(exprs, r.n))
         ELSE parseExprListLoop(advance(r.p), Append(exprs, r.n)))

parseExprList(p) == parseExprListLoop(p, <<>>)

----------------------------------------------------------------------------
(* Statement parser                                                        *)

isClauseKeyword(t) ==
    t \in {"FROM", "WHERE", "GROUP", "HAVING", "UNION", "INTERSECT", "EXCEPT",
           "INTO", "ON", "USING", "JOIN", "INNER", "LEFT", "RIGHT", "FULL",
           "CROSS", "NATURAL", "AND", "OR", "THEN", "ELSE", "END", "WHEN",
           "AS", "VALUES"}

RECURSIVE parseTableNameParts(_, _)
parseTableNameParts(p, parts) ==
    IF ~curIs(p, "DOT") THEN Ret(p, [k |-> "TableName", Parts |-> parts])
    ELSE Let(advance(p), LAMBDA p1 :
         IF ~curIsIdent(p1)
         THEN Ret(errorf(p1, <<"expected identifier after '.'">>), NilPtr("TableName"))
         ELSE parseTableNameParts(advance(p1), Append(parts, p1.cur.Value)))

parseTableName(p0) ==
    IF ~curIsIdent(p0) THEN Ret(errorf(p0, <<"expected table name">>), NilPtr("TableName"))
    ELSE parseTableNameParts(advance(p0), <<p0.cur.Value>>)

RECURSIVE parseColumnNames(_, _)
parseColumnNames(p, names) ==
    IF ~curIs(p, "IDENT") THEN Ret(p, names)
    ELSE Let(advance(p), LAMBDA p1 :
         IF ~curIs(p1, "COMMA") THEN Ret(p1, Append(names, p.cur.Value))
         ELSE parseColumnNames(advance(p1), Append(names, p.cur.Value)))

\* the first advance consumes the current token as the opening parenthesis
parseColumnNameList(p0) ==
    Let(parseColumnNames(advance(p0), <<>>), LAMBDA r :
    Ret(expect(r.p, "RPAREN").p, r.n))

\* parseTablePrimary up to the optional alias: a subquery, a parenthesized
\* table expression or a table name
parseTablePrimaryExpr(p0) ==
    IF curIs(p0, "LPAREN")
    THEN Let(advance(p0), LAMBDA p1 :
         IF curIs(p1, "SELECT")
         THEN Let(Call("parseSelect", p1, precLowest), LAMBDA s :
              Let(expect(s.p, "RPAREN"), LAMBDA e :
              IF ~e.n THEN Ret(e.p, Nil)
              ELSE Ret(e.p, [k |-> "Subquery", Select |-> s.n])))
         ELSE Let(Call("parseTableExpr", p1, precLowest), LAMBDA inner :
              Let(expect(inner.p, "RPAREN"), LAMBDA e :
              IF ~e.n THEN Ret(e.p, Nil)
              ELSE Ret(e.p, [k |-> "ParenTableExpr", Expr |-> inner.n]))))
    ELSE IF curIsIdent(p0)
    THEN Let(parseTableName(p0), LAMBDA tn :
         IF isNilExpr(tn.n) THEN Ret(tn.p, Nil) ELSE tn)
    ELSE Ret(errorf(p0, <<"expected table name or subquery">>), Nil)

parseTablePrimary(p0) ==
    Let(parseTablePrimaryExpr(p0), LAMBDA r :
    IF r.n = Nil THEN r
    ELSE Let(IF curIs(r.p, "AS") THEN advance(r.p) ELSE r.p, LAMBDA p1 :
         Let(curIs(p1, "IDENT") /\ ~isClauseKeyword(p1.cur.Type), LAMBDA named :
         Let(IF named THEN advance(p1) ELSE p1, LAMBDA p2 :
         Let(IF curIs(p2, "LPAREN") THEN parseColumnNameList(p2).p ELSE p2, LAMBDA p3 :
         IF named /\ p1.cur.Value # <<>>
         THEN Ret(p3, [k |-> "AliasedTableExpr", Expr |-> r.n, Alias |-> p1.cur.Value])
         ELSE Ret(p3, r.n))))))

checkJoinKeyword(p) ==
    Let(curIs(p, "NATURAL"), LAMBDA natural :
    Let(p.cur.Type, LAMBDA t :
       CASE t \in {"JOIN", "INNER"} ->
                [Type |-> "JoinInner", natural |-> natural, hasJoin |-> TRUE]
         [] t = "LEFT" -> [Type |-> "JoinLeft", natural |-> natural, hasJoin |-> TRUE]
         [] t = "RIGHT" -> [Type |-> "JoinRight", natural |-> natural, hasJoin |-> TRUE]
         [] t = "FULL" -> [Type |-> "JoinFull", natural |-> natural, hasJoin |-> TRUE]
         [] t = "CROSS" -> [Type |-> "JoinCross", natural |-> natural, hasJoin |-> TRUE]
         [] t = "NATURAL" -> [Type |-> "JoinInner", natural |-> TRUE, hasJoin |-> TRUE]
         [] t = "COMMA" -> [Type |-> "JoinCross", natural |-> FALSE, hasJoin |-> TRUE]
         [] OTHER -> [Type |-> "JoinInner", natural |-> FALSE, hasJoin |-> FALSE]))

RECURSIVE consumeJoinKeywords(_)
consumeJoinKeywords(p) ==
    IF p.cur.Type \in {"NATURAL", "INNER", "LEFT", "RIGHT", "FULL", "OUTER", "CROSS",
                       "JOIN", "COMMA"}
    THEN consumeJoinKeywords(advance(p))
    ELSE p

JoinTakesConditionAlways(joinType, natural) == TRUE

\* the joins parseTableExpr reads ON or USING for
JoinTakesCondition(joinType, natural) == joinType # "JoinCross" /\ ~natural

\* the join loop of parseTableExpr
RECURSIVE parseJoins(_, _)
parseJoins(p, left) ==
    Let(checkJoinKeyword(p), LAMBDA j :
    IF ~j.hasJoin THEN Ret(p, left)
    ELSE Let(parseTablePrimary(consumeJoinKeywords(p)), LAMBDA right :
         Let(JoinTakesCondition(j.Type, j.natural), LAMBDA cond :
         Let(IF cond /\ curIs(right.p, "ON") THEN parseExpr(advance(right.p))
             ELSE Ret(right.p, Nil), LAMBDA on :
         Let(IF cond /\ ~curIs(right.p, "ON") /\ curIs(right.p, "USING")
             THEN parseColumnNameList(advance(right.p))
             ELSE Ret(on.p, <<>>), LAMBDA using :
         parseJoins(using.p, [k |-> "JoinExpr", Type |-> j.Type, Left |-> left,
                              Right |-> right.n, On |-> on.n, Using |-> using.n,
                              Natural |-> j.natural]))))))

parseTableExpr(p) ==
    Let(parseTablePrimary(p), LAMBDA left :
    IF left.n = Nil THEN left ELSE parseJoins(left.p, left.n))

StarExpr == [k |-> "StarExpr", TableName |-> <<>>, HasQualifier |-> FALSE]

parseSelectExpr(p0) ==
    Let(skipComments(p0), LAMBDA p :
    IF curIs(p, "ASTERISK") THEN Ret(advance(p), StarExpr)
    ELSE Let(parseExpr(p), LAMBDA r :
         IF r.n = Nil THEN Ret(r.p, Nil)
         ELSE IF r.n.k = "StarExpr" THEN r
         ELSE IF curIs(r.p, "AS")
              THEN Let(advance(r.p), LAMBDA p1 :
                   IF ~curIs(p1, "IDENT") /\ ~curIs(p1, "STRING")
                   THEN Ret(errorf(p1, <<"expected alias after AS">>), Nil)
                   ELSE Ret(advance(p1), [k |-> "AliasedExpr", Expr |-> r.n,
                                          Alias |-> p1.cur.Value]))
              ELSE IF curIs(r.p, "IDENT") /\ ~isClauseKeyword(r.p.cur.Type)
                   THEN Ret(advance(r.p), [k |-> "AliasedExpr", Expr |-> r.n,
                                           Alias |-> r.p.cur.Value])
                   ELSE Ret(r.p, [k |-> "AliasedExpr", Expr |-> r.n, Alias |-> <<>>])))

RECURSIVE parseSelectExprsLoop(_, _)
parseSelectExprsLoop(p, exprs) ==
    Let(parseSelectExpr(p), LAMBDA r :
    IF r.n = Nil THEN Ret(r.p, exprs)
    ELSE IF ~curIs(r.p, "COMMA") THEN Ret(r.p, Append(exprs, r.n))
         ELSE parseSelectExprsLoop(advance(r.p), Append(exprs, r.n)))

parseSelectExprs(p) == parseSelectExprsLoop(p, <<>>)

isSetOpToken(p) == curIs(p, "UNION") \/ curIs(p, "INTERSECT") \/ curIs(p, "EXCEPT")

\* the loop of parseSetOp: each right side is parsed and dropped
parseSetOpLoop(p) ==
    IF ~isSetOpToken(p) THEN p
    ELSE Let(advance(p), LAMBDA p1 :
         Let(IF curIs(p1, "ALL") \/ curIs(p1, "DISTINCT") THEN advance(p1) ELSE p1,
             LAMBDA p2 :
         IF curIs(p2, "LPAREN")
         THEN parseSetOpLoop(expect(Call("parseSelect", advance(p2), precLowest).p,
                                    "RPAREN").p)
         ELSE parseSetOpLoop(Call("parseSelect", p2, precLowest).p)))

parseSetOp(p, left) == Ret(parseSetOpLoop(p), left)

parseSelect(p0) ==
    Let(expect(p0, "SELECT"), LAMBDA e :
    IF ~e.n THEN Ret(e.p, NilPtr("SelectStmt"))
    ELSE
    Let(curIs(e.p, "DISTINCT"), LAMBDA distinct :
    Let(IF distinct \/ curIs(e.p, "ALL") THEN advance(e.p) ELSE e.p, LAMBDA p1 :
    Let(parseSelectExprs(p1), LAMBDA cols :
    Let(IF curIs(cols.p, "FROM") THEN parseTableExpr(advance(cols.p))
        ELSE Ret(cols.p, Nil), LAMBDA from :
    Let(IF curIs(from.p, "WHERE") THEN parseExpr(advance(from.p))
        ELSE Ret(from.p, Nil), LAMBDA where :
    Let(curIs(where.p, "GROUP"), LAMBDA grp :
    Let(IF grp THEN expect(advance(where.p), "BY") ELSE Ret(where.p, TRUE),
        LAMBDA by :
    IF ~by.n THEN Ret(by.p, NilPtr("SelectStmt"))
    ELSE
    Let(IF grp THEN parseExprList(by.p) ELSE Ret(by.p, <<>>), LAMBDA groupBy :
    Let(IF curIs(groupBy.p, "HAVING") THEN parseExpr(advance(groupBy.p))
        ELSE Ret(groupBy.p, Nil), LAMBDA having :
    Let([k |-> "SelectStmt", StartPos |-> p0.cur.Pos,
         EndPos |-> having.p.cur.Pos, Distinct |-> distinct,
         Columns |-> cols.n, From |-> from.n, Where |-> where.n,
         GroupBy |-> groupBy.n, Having |-> having.n], LAMBDA stmt :
    IF isSetOpToken(having.p) THEN parseSetOp(having.p, stmt)
    ELSE Ret(having.p, stmt))))))))))))

RECURSIVE parseValuesRow(_, _)

\* the end of one turn of the row loop: a comma continues the row
ValuesRowNext(p, row) ==
    IF ~curIs(p, "COMMA") THEN Ret(p, row) ELSE parseValuesRow(advance(p), row)

\* the row loop of parseValuesList
parseValuesRow(p, row) ==
    IF curIs(p, "DEFAULT")
    THEN ValuesRowNext(advance(p), Append(row, [k |-> "Literal", Type |-> "LiteralNull",
                                                Value |-> <<"D","E","F","A","U","L","T">>]))
    ELSE Let(parseExpr(p), LAMBDA r :
         IF r.n = Nil THEN Ret(r.p, row)
         ELSE ValuesRowNext(r.p, Append(row, r.n)))

RECURSIVE parseValuesRows(_, _)
parseValuesRows(p, rows) ==
    IF ~curIs(p, "LPAREN") THEN Ret(p, rows)
    ELSE Let(parseValuesRow(advance(p), <<>>), LAMBDA row :
         Let(expect(row.p, "RPAREN").p, LAMBDA p1 :
         IF ~curIs(p1, "COMMA") THEN Ret(p1, Append(rows, row.n))
         ELSE parseValuesRows(advance(p1), Append(rows, row.n))))

parseValuesList(p) == parseValuesRows(p, <<>>)

\* the optional column list of parseInsert
parseInsertColumns(p) ==
    IF curIs(p, "LPAREN") /\ ~peekIs(p, "SELECT")
    THEN Let(parseColumnNames(advance(p), <<>>), LAMBDA r :
         Ret(expect(r.p, "RPAREN").p,
             [i \in 1..Len(r.n) |-> [k |-> "ColName", Parts |-> <<r.n[i]>>]]))
    ELSE Ret(p, <<>>)

\* the VALUES / SELECT / DEFAULT VALUES alternatives of parseInsert: n holds
\* the Values and Select fields they set
parseInsertSource(p) ==
    IF curIs(p, "VALUES")
    THEN Let(parseValuesList(advance(p)), LAMBDA v :
         Ret(v.p, [Values |-> v.n, Select |-> Nil]))
    ELSE IF curIs(p, "SELECT")
    THEN Let(Call("parseSelect", p, precLowest), LAMBDA s :
         Ret(s.p, [Values |-> <<>>, Select |-> s.n]))
    ELSE IF curIs(p, "DEFAULT")
    THEN Ret(expect(advance(p), "VALUES").p, [Values |-> << <<>> >>, Select |-> Nil])
    ELSE Ret(p, [Values |-> <<>>, Select |-> Nil])

parseInsert(p0) ==
    Let(expect(advance(p0), "INTO"), LAMBDA e :
    IF ~e.n THEN Ret(e.p, NilPtr("InsertStmt"))
    ELSE Let(parseTableName(e.p), LAMBDA table :
         Let(parseInsertColumns(table.p), LAMBDA cols :
         Let(parseInsertSource(cols.p), LAMBDA src :
         Let(IF curIs(src.p, "ON") THEN advance(src.p) ELSE src.p, LAMBDA p1 :
         Ret(p1, [k |-> "InsertStmt", Table |-> table.n, Columns |-> cols.n,
                  Values |-> src.n.Values, Select |-> src.n.Select]))))))

RECURSIVE parseTruncateTables(_, _)
parseTruncateTables(p, tables) ==
    Let(parseTableName(p), LAMBDA t :
    IF ~curIs(t.p, "COMMA") THEN Ret(t.p, Append(tables, t.n))
    ELSE parseTruncateTables(advance(t.p), Append(tables, t.n)))

parseTruncate(p0) ==
    Let(advance(p0), LAMBDA p1 :
    Let(parseTruncateTables(IF curIs(p1, "TABLE") THEN advance(p1) ELSE p1, <<>>),
        LAMBDA tables :
    Let(curIs(tables.p, "CASCADE"), LAMBDA cascade :
    Ret(IF cascade THEN advance(tables.p) ELSE tables.p,
        [k |-> "TruncateStmt", Tables |-> tables.n, Cascade |-> cascade]))))

\* the type assertion inner.(*ast.SelectStmt)
IsSelectStmt(n) == n.k = "SelectStmt" \/ (n.k = "nilptr" /\ n.t = "SelectStmt")

\* a write through the pointer sel: a nil pointer dereference panics
Deref(p, sel) == IF sel.k = "nilptr" THEN [p EXCEPT !.panicked = TRUE] ELSE p

parseParenthesizedStatement(p0) ==
    Let(Call("parseStatement", advance(p0), precLowest), LAMBDA r :
    IF r.n = Nil THEN Ret(r.p, Nil)
    ELSE Let(expect(r.p, "RPAREN"), LAMBDA e :
         IF ~e.n THEN Ret(e.p, Nil)
         ELSE IF ~IsSelectStmt(r.n) THEN Ret(e.p, r.n)
         ELSE IF isSetOpToken(e.p) THEN parseSetOp(e.p, r.n)
         ELSE Let(Deref(e.p, r.n), LAMBDA d :
              IF d.panicked THEN Ret(d, Nil)
              ELSE Ret(e.p, [r.n EXCEPT !.StartPos = p0.cur.Pos,
                                        !.EndPos = e.p.cur.Pos]))))

parseStatement(p) ==
    CASE p.cur.Type = "SELECT" -> Call("parseSelect", p, precLowest)
      [] p.cur.Type = "INSERT" -> parseInsert(p)
      [] p.cur.Type = "TRUNCATE" -> parseTruncate(p)
      [] p.cur.Type = "LPAREN" -> parseParenthesizedStatement(p)
      [] OTHER -> Ret(advance(errorf(p, <<"unexpected token", p.cur.Type,
                                          "at start of statement">>)), Nil)

\* a call of one production from another: fn names the production, a is
\* the minimum level for parseExprPrec
Call(fn, p, a) ==
    CASE fn = "parseExprPrec" -> parseExprPrec(p, a)
      [] fn = "parsePrimaryExpr" -> parsePrimaryExpr(p)
      [] fn = "parseSelect" -> parseSelect(p)
      [] fn = "parseTableExpr" -> parseTableExpr(p)
      [] fn = "parseStatement" -> parseStatement(p)
      [] fn = "Next" -> LexNext(p)
      [] fn = "Peek" -> LexPeek(p)

NoError == [Pos |-> [Offset |-> 0, Line |-> 0, Column |-> 0], Message |-> <<>>]

\* the error Parse and ParseAll return when errors were recorded
ReturnedErrorLast(errors) == errors[Len(errors)]

ReturnedError(errors) == errors[1]

\* a run of `;` tokens
RECURSIVE skipSemicolonsOnly(_)
skipSemicolonsOnly(p) ==
    IF curIs(p, "SEMICOLON") THEN skipSemicolonsOnly(advance(p)) ELSE p

\* Parse's trailing loop had it no skipComments after each `;`
skipSemicolonsNotComments(p) == skipSemicolonsOnly(p)

RECURSIVE skipSemicolonsAndComments(_)
skipSemicolonsAndComments(p) ==
    IF curIs(p, "SEMICOLON") THEN skipSemicolonsAndComments(skipComments(advance(p)))
    ELSE p

\* the final state of the parser p is kept for inspection
Outcome(p, res, err) ==
    [panicked |-> p.panicked,
     stmt |-> IF p.panicked THEN Nil ELSE res,
     err |-> IF p.panicked THEN NoError ELSE err,
     errors |-> p.errors,
     p |-> p]

\* Parser.Parse
Parse(p0) ==
    Let(skipComments(p0), LAMBDA p1 :
    IF curIs(p1, "EOF") THEN Outcome(p1, Nil, NoError)
    ELSE Let(Call("parseStatement", p1, precLowest), LAMBDA r :
         IF r.p.panicked THEN Outcome(r.p, Nil, NoError)
         ELSE IF Len(r.p.errors) > 0 THEN Outcome(r.p, Nil, ReturnedError(r.p.errors))
         ELSE Let(skipSemicolonsAndComments(skipComments(r.p)), LAMBDA p2 :
              IF ~curIs(p2, "EOF")
              THEN Let(errorf(p2, <<"unexpected token", p2.cur.Type,
                                    "after statement">>), LAMBDA p3 :
                   Outcome(p3, Nil, ReturnedError(p3.errors)))
              ELSE Outcome(p2, r.n, NoError))))

\* a variant that insists on a `;` (or the end of input) after a statement
RequireSeparator(p) ==
    IF curIs(p, "SEMICOLON") \/ curIs(p, "EOF") \/ Len(p.errors) > 0
    THEN skipSemicolonsOnly(p)
    ELSE errorf(p, <<"expected", "SEMICOLON", "got", p.cur.Type>>)

\* ParseAll's loop over `;` between statements
SkipSeparators(p) == skipSemicolonsOnly(p)

\* one pass through the body of ParseAll's loop: the parser and the
\* statements afterwards, brk when the pass left the loop with break
ParseAllBody(p0, stmts) ==
    Let(skipComments(p0), LAMBDA p1 :
    IF curIs(p1, "EOF") THEN [p |-> p1, n |-> stmts, brk |-> TRUE]
    ELSE Let(Call("parseStatement", p1, precLowest), LAMBDA r :
         Let(IF r.n # Nil THEN Append(stmts, r.n) ELSE stmts, LAMBDA stmts1 :
         IF r.p.panicked THEN [p |-> r.p, n |-> stmts1, brk |-> TRUE]
         ELSE [p |-> skipComments(SkipSeparators(r.p)), n |-> stmts1, brk |-> FALSE])))

RECURSIVE ParseAllLoop(_, _)
ParseAllLoop(p0, stmts) ==
    IF curIs(p0, "EOF") \/ p0.panicked THEN Ret(p0, stmts)
    ELSE Let(ParseAllBody(p0, stmts), LAMBDA b :
         IF b.brk THEN Ret(b.p, b.n) ELSE ParseAllLoop(b.p, b.n))

\* Parser.ParseAll
ParseAll(p0) ==
    Let(ParseAllLoop(p0, <<>>), LAMBDA r :
    IF Len(r.p.errors) > 0 THEN Outcome(r.p, r.n, ReturnedError(r.p.errors))
    ELSE Outcome(r.p, r.n, NoError))

----------------------------------------------------------------------------
(* Formatter (package format, DefaultOptions: Uppercase = true)            *)

\* Token.String() of a keyword token
TokenName(t) == ToUpper(CHOOSE w \in DOMAIN keywords : keywords[w] = t)

writeKeyword(kw) == ToUpper(kw)

\* strings.ReplaceAll(s, old, old old) for a one-byte old
RECURSIVE Doubled(_, _)
Doubled(s, ch) ==
    IF s = <<>> THEN <<>>
    ELSE (IF Head(s) = ch THEN <<ch, ch>> ELSE <<Head(s)>>) \o Doubled(Tail(s), ch)

needsQuotingNonKeyword(id) ==
    \/ Len(id) = 0
    \/ ~(id[1] \in LowerChars \/ id[1] \in UpperChars \/ id[1] = "_")
    \/ \E i \in 2..Len(id) :
          ~(id[i] \in LowerChars \/ id[i] \in UpperChars \/ isDigit(id[i])
            \/ id[i] = "_" \/ id[i] = "$")

needsQuoting(id) == needsQuotingNonKeyword(id) \/ IsKeywordText(id)

writeIdent(id) ==
    IF needsQuoting(id) THEN <<"\"">> \o Doubled(id, "\"") \o <<"\"">> ELSE id

writeFuncName(name) ==
    IF needsQuotingNonKeyword(name) THEN <<"\"">> \o Doubled(name, "\"") \o <<"\"">>
    ELSE name

\* a formatStringLiteral that escapes the quotes only
formatStringLiteralQuotesOnly(v) == <<"'">> \o Doubled(v, "'") \o <<"'">>

formatStringLiteral(v) == <<"'">> \o Doubled(Doubled(v, "\\"), "'") \o <<"'">>

tokenToString(t) ==
    CASE t = "EQ" -> <<"=">>            [] t = "NEQ" -> <<"<", ">">>
      [] t = "LT" -> <<"<">>            [] t = "GT" -> <<">">>
      [] t = "LTE" -> <<"<", "=">>      [] t = "GTE" -> <<">", "=">>
      [] t = "PLUS" -> <<"+">>          [] t = "MINUS" -> <<"-">>
      [] t = "ASTERISK" -> <<"*">>      [] t = "SLASH" -> <<"/">>
      [] t = "PERCENT" -> <<"%">>       [] t = "CONCAT" -> <<"|", "|">>
      [] t = "BITAND" -> <<"&">>        [] t = "BITOR" -> <<"|">>
      [] t = "BITXOR" -> <<"^">>        [] t = "LSHIFT" -> <<"<", "<">>
      [] t = "RSHIFT" -> <<">", ">">>
      [] OTHER -> TokenName(t)

\* what the buffer would hold had Format not dereferenced a nil pointer
FormatPanic == <<"PANIC">>

RECURSIVE Format(_)
RECURSIVE FormatList(_)

\* the nodes of a slice, separated by ", "
FormatList(ns) ==
    IF ns = <<>> THEN <<>>
    ELSE IF Len(ns) = 1 THEN Format(ns[1])
    ELSE Format(ns[1]) \o <<",", " ">> \o FormatList(Tail(ns))

formatLiteral(l) ==
    CASE l.Type = "LiteralNull" -> writeKeyword(<<"N","U","L","L">>)
      [] l.Type = "LiteralString" -> formatStringLiteral(l.Value)
      [] l.Type = "LiteralBool" -> writeKeyword(l.Value)
      [] OTHER -> l.Value

formatColName(c) ==
    LET RECURSIVE parts(_)
        parts(i) == IF i > Len(c.Parts) THEN <<>>
                    ELSE (IF i > 1 THEN <<".">> ELSE <<>>) \o writeIdent(c.Parts[i])
                         \o parts(i + 1)
    IN parts(1)

formatSelect(s) ==
    TokenName("SELECT")
    \o (IF s.Distinct THEN <<" ">> \o TokenName("DISTINCT") ELSE <<>>)
    \o <<" ">> \o FormatList(s.Columns)
    \o (IF s.From # Nil THEN <<" ">> \o TokenName("FROM") \o <<" ">> \o Format(s.From)
        ELSE <<>>)
    \o (IF s.Where # Nil THEN <<" ">> \o TokenName("WHERE") \o <<" ">> \o Format(s.Where)
        ELSE <<>>)
    \o (IF Len(s.GroupBy) > 0
        THEN <<" ">> \o TokenName("GROUP") \o <<" ">> \o TokenName("BY") \o <<" ">>
             \o FormatList(s.GroupBy)
        ELSE <<>>)
    \o (IF s.Having # Nil THEN <<" ">> \o TokenName("HAVING") \o <<" ">> \o Format(s.Having)
        ELSE <<>>)

formatBinaryExpr(e) ==
    Format(e.Left) \o <<" ">> \o writeKeyword(tokenToString(e.Op)) \o <<" ">>
    \o Format(e.Right)

formatUnaryExpr(e) ==
    (CASE e.Op = "NOT" -> TokenName("NOT") \o <<" ">>
       [] e.Op = "MINUS" ->
            <<"-">> \o (IF e.Operand.k = "UnaryExpr" /\ e.Operand.Op = "MINUS"
                        THEN <<" ">> ELSE <<>>)
       [] OTHER -> <<"~">>)
    \o Format(e.Operand)

formatFuncExpr(e) ==
    writeFuncName(e.Name) \o <<"(">>
    \o (IF e.Distinct THEN TokenName("DISTINCT") \o <<" ">> ELSE <<>>)
    \o FormatList(e.Args) \o <<")">>

formatIsExpr(e) ==
    Format(e.Expr) \o <<" ">> \o TokenName("IS")
    \o (IF e.Not THEN <<" ">> \o TokenName("NOT") ELSE <<>>)
    \o <<" ">>
    \o (CASE e.What = "IsNull" -> TokenName("NULL")
          [] e.What = "IsTrue" -> TokenName("TRUE")
          [] e.What = "IsFalse" -> TokenName("FALSE")
          [] OTHER -> TokenName("UNKNOWN"))

formatBetweenExpr(e) ==
    Format(e.Expr)
    \o (IF e.Not THEN <<" ">> \o TokenName("NOT") ELSE <<>>)
    \o <<" ">> \o TokenName("BETWEEN") \o <<" ">> \o Format(e.Low)
    \o <<" ">> \o TokenName("AND") \o <<" ">> \o Format(e.High)

\* names written with writeIdent, joined by sep
RECURSIVE formatIdents(_, _)
formatIdents(names, sep) ==
    IF names = <<>> THEN <<>>
    ELSE writeIdent(Head(names))
         \o (IF Len(names) > 1 THEN sep \o formatIdents(Tail(names), sep) ELSE <<>>)

formatTableName(t) == formatIdents(t.Parts, <<".">>)

formatAliasedTableExpr(a) ==
    Format(a.Expr)
    \o (IF a.Alias # <<>> THEN <<" ">> \o TokenName("AS") \o <<" ">> \o writeIdent(a.Alias)
        ELSE <<>>)

formatJoinExpr(j) ==
    Format(j.Left) \o <<" ">>
    \o (IF j.Natural THEN TokenName("NATURAL") \o <<" ">> ELSE <<>>)
    \o (CASE j.Type = "JoinInner" -> writeKeyword(<<"J","O","I","N">>)
          [] j.Type = "JoinLeft" -> writeKeyword(<<"L","E","F","T"," ","J","O","I","N">>)
          [] j.Type = "JoinRight" -> writeKeyword(<<"R","I","G","H","T"," ","J","O","I","N">>)
          [] j.Type = "JoinFull" -> writeKeyword(<<"F","U","L","L"," ","J","O","I","N">>)
          [] j.Type = "JoinCross" -> writeKeyword(<<"C","R","O","S","S"," ","J","O","I","N">>))
    \o <<" ">> \o Format(j.Right)
    \o (IF j.On # Nil THEN <<" ">> \o TokenName("ON") \o <<" ">> \o Format(j.On)
        ELSE <<>>)
    \o (IF Len(j.Using) > 0
        THEN <<" ">> \o TokenName("USING") \o <<" ", "(">>
             \o formatIdents(j.Using, <<",", " ">>) \o <<")">>
        ELSE <<>>)

RECURSIVE formatValuesRows(_)
formatValuesRows(rows) ==
    IF rows = <<>> THEN <<>>
    ELSE <<"(">> \o FormatList(Head(rows)) \o <<")">>
         \o (IF Len(rows) > 1 THEN <<",", " ">> \o formatValuesRows(Tail(rows)) ELSE <<>>)

formatInsert(s) ==
    TokenName("INSERT") \o <<" ">> \o TokenName("INTO") \o <<" ">> \o Format(s.Table)
    \o (IF Len(s.Columns) > 0
        THEN <<" ", "(">>
             \o formatIdents([i \in 1..Len(s.Columns) |->
                                 s.Columns[i].Parts[Len(s.Columns[i].Parts)]], <<",", " ">>)
             \o <<")">>
        ELSE <<>>)
    \o (IF s.Select # Nil THEN <<" ">> \o Format(s.Select)
        ELSE IF Len(s.Values) > 0
        THEN <<" ">> \o TokenName("VALUES") \o <<" ">> \o formatValuesRows(s.Values)
        ELSE <<>>)

formatTruncate(s) ==
    writeKeyword(<<"T","R","U","N","C","A","T","E"," ","T","A","B","L","E">>) \o <<" ">> \o FormatList(s.Tables)
    \o (IF s.Cascade THEN <<" ">> \o TokenName("CASCADE") ELSE <<>>)

RECURSIVE formatWhens(_)
formatWhens(ws) ==
    IF ws = <<>> THEN <<>>
    ELSE <<" ">> \o TokenName("WHEN") \o <<" ">> \o Format(Head(ws).Cond)
         \o <<" ">> \o TokenName("THEN") \o <<" ">> \o Format(Head(ws).Result)
         \o formatWhens(Tail(ws))

formatCaseExpr(e) ==
    TokenName("CASE")
    \o (IF e.Operand # Nil THEN <<" ">> \o Format(e.Operand) ELSE <<>>)
    \o formatWhens(e.Whens)
    \o (IF e.Else # Nil THEN <<" ">> \o TokenName("ELSE") \o <<" ">> \o Format(e.Else)
        ELSE <<>>)
    \o <<" ">> \o TokenName("END")

Format(n) ==
    CASE n.k = "nil" -> <<>>
      [] n.k = "nilptr" -> FormatPanic
      [] n.k = "SelectStmt" -> formatSelect(n)
      [] n.k = "InsertStmt" -> formatInsert(n)
      [] n.k = "TruncateStmt" -> formatTruncate(n)
      [] n.k = "BinaryExpr" -> formatBinaryExpr(n)
      [] n.k = "UnaryExpr" -> formatUnaryExpr(n)
      [] n.k = "ParenExpr" -> <<"(">> \o Format(n.Expr) \o <<")">>
      [] n.k = "FuncExpr" -> formatFuncExpr(n)
      [] n.k = "ColName" -> formatColName(n)
      [] n.k = "Literal" -> formatLiteral(n)
      [] n.k = "Subquery" -> <<"(">> \o Format(n.Select) \o <<")">>
      [] n.k = "AliasedExpr" ->
            Format(n.Expr)
            \o (IF n.Alias # <<>> THEN <<" ">> \o TokenName("AS") \o <<" ">>
                                       \o writeIdent(n.Alias)
                ELSE <<>>)
      [] n.k = "StarExpr" ->
            (IF n.HasQualifier THEN writeIdent(n.TableName) \o <<".">> ELSE <<>>)
            \o <<"*">>
      [] n.k = "IsExpr" -> formatIsExpr(n)
      [] n.k = "BetweenExpr" -> formatBetweenExpr(n)
      [] n.k = "CaseExpr" -> formatCaseExpr(n)
      [] n.k = "TableName" -> formatTableName(n)
      [] n.k = "AliasedTableExpr" -> formatAliasedTableExpr(n)
      [] n.k = "JoinExpr" -> formatJoinExpr(n)
      [] n.k = "ParenTableExpr" -> <<"(">> \o Format(n.Expr) \o <<")">>
      [] n.k = "CollateExpr" ->
            Format(n.Expr) \o <<" ">> \o TokenName("COLLATE") \o <<" ">> \o n.Collation
      [] OTHER -> <<>>

----------------------------------------------------------------------------
(* Tree shape (package ast): the nodes a node holds in its fields, in the  *)
(* order the fields are declared.                                          *)

\* an interface-typed field: nil holds no node
Opt(n) == IF n = Nil THEN <<>> ELSE <<n>>

RECURSIVE Flatten(_)
Flatten(rows) == IF rows = <<>> THEN <<>> ELSE Head(rows) \o Flatten(Tail(rows))

\* the conditions and results of a CASE, WHEN by WHEN
RECURSIVE WhenChildren(_)
WhenChildren(ws) ==
    IF ws = <<>> THEN <<>>
    ELSE Opt(Head(ws).Cond) \o Opt(Head(ws).Result) \o WhenChildren(Tail(ws))

AstChildren(n) ==
    CASE n.k = "SelectStmt" ->
            n.Columns \o Opt(n.From) \o Opt(n.Where) \o n.GroupBy \o Opt(n.Having)
      [] n.k = "InsertStmt" ->
            <<n.Table>> \o n.Columns \o Flatten(n.Values) \o Opt(n.Select)
      [] n.k = "TruncateStmt" -> n.Tables
      [] n.k = "BinaryExpr" -> <<n.Left, n.Right>>
      [] n.k = "UnaryExpr" -> <<n.Operand>>
      [] n.k = "ParenExpr" -> <<n.Expr>>
      [] n.k = "FuncExpr" -> n.Args
      [] n.k = "BetweenExpr" -> <<n.Expr, n.Low, n.High>>
      [] n.k = "CaseExpr" -> Opt(n.Operand) \o WhenChildren(n.Whens) \o Opt(n.Else)
      [] n.k = "IsExpr" -> <<n.Expr>>
      [] n.k = "CollateExpr" -> <<n.Expr>>
      [] n.k = "Subquery" -> <<n.Select>>
      [] n.k = "AliasedExpr" -> <<n.Expr>>
      [] n.k = "AliasedTableExpr" -> <<n.Expr>>
      [] n.k = "JoinExpr" -> <<n.Left>> \o Opt(n.Right) \o Opt(n.On)
      [] n.k = "ParenTableExpr" -> Opt(n.Expr)
      [] OTHER -> <<>>

\* every node of the tree under n, n included
RECURSIVE Subtrees(_)
Subtrees(n) ==
    IF isNilExpr(n) THEN {}
    ELSE {n} \cup UNION {Subtrees(AstChildren(n)[i]) : i \in 1..Len(AstChildren(n))}

----------------------------------------------------------------------------
(* Package visitor: Walk and Rewrite.  A traversal is recorded as the      *)
(* sequence of calls it makes on the caller's function; a call carries the *)
(* node and its position, the path of child indexes from the root.  The    *)
(* trees traversed are accepted ones, which hold no nil pointers.          *)

\* the Conds and Results of WHEN clauses, in order
RECURSIVE WhenNodes(_)
WhenNodes(ws) ==
    IF ws = <<>> THEN <<>>
    ELSE <<Head(ws).Cond, Head(ws).Result>> \o WhenNodes(Tail(ws))

\* the nodes walkChildren calls Walk on, in order; a nil among them makes
\* Walk return at once
walkChildren(n) ==
    CASE n.k = "SelectStmt" ->
            n.Columns \o Opt(n.From) \o Opt(n.Where) \o n.GroupBy \o Opt(n.Having)
      [] n.k = "InsertStmt" ->
            <<n.Table>> \o n.Columns \o Flatten(n.Values) \o Opt(n.Select)
      [] n.k = "BinaryExpr" -> <<n.Left, n.Right>>
      [] n.k = "UnaryExpr" -> <<n.Operand>>
      [] n.k = "ParenExpr" -> <<n.Expr>>
      [] n.k = "FuncExpr" -> n.Args
      [] n.k = "CaseExpr" -> Opt(n.Operand) \o WhenNodes(n.Whens) \o Opt(n.Else)
      [] n.k = "BetweenExpr" -> <<n.Expr, n.Low, n.High>>
      [] n.k = "IsExpr" -> <<n.Expr>>
      [] n.k = "Subquery" -> <<n.Select>>
      [] n.k = "ColName" -> <<>>
      [] n.k = "AliasedExpr" -> <<n.Expr>>
      [] n.k = "AliasedTableExpr" -> <<n.Expr>>
      [] n.k = "JoinExpr" -> <<n.Left, n.Right>> \o Opt(n.On)
      [] n.k = "ParenTableExpr" -> <<n.Expr>>
      [] n.k = "CollateExpr" -> <<n.Expr>>
      [] OTHER -> <<>>

\* funcVisitor.Visit for a function that returns false on the kinds in stop:
\* TRUE stands for the visitor itself, FALSE for a nil Visitor
Visit(stop, node) == node.k \notin stop

WalkOnAlways(v) == TRUE

\* Walk goes on to walkChildren unless Visit returned nil
WalkOn(v) == v

RECURSIVE Walk(_, _, _)
RECURSIVE WalkEach(_, _, _, _)
Walk(stop, node, path) ==
    IF node = Nil THEN <<>>
    ELSE <<[path |-> path, node |-> node]>>
         \o (IF WalkOn(Visit(stop, node))
             THEN WalkEach(stop, walkChildren(node), path, 1)
             ELSE <<>>)

\* the calls of Walk that walkChildren makes, one child after the other
WalkEach(stop, children, path, i) ==
    IF i > Len(children) THEN <<>>
    ELSE Walk(stop, children[i], Append(path, i))
         \o WalkEach(stop, children, path, i + 1)

\* visitor.WalkFunc(node, fn)
WalkFunc(node, stop) == Walk(stop, node, <<>>)

\* the caller's ApplyFunc, named by fn: the identity, the function of
\* TestRewrite that qualifies bare column names with u, and one that
\* replaces every integer literal by 0
Apply(fn, node) ==
    CASE fn = "qualify" /\ node.k = "ColName" /\ Len(node.Parts) = 1 ->
            [node EXCEPT !.Parts = <<<<"u">>, node.Parts[1]>>]
      [] fn = "zero" /\ node.k = "Literal" /\ node.Type = "LiteralInt" ->
            [node EXCEPT !.Value = <<"0">>]
      [] OTHER -> node

RECURSIVE Rewrite(_, _)

\* if result := Rewrite(child, f); result != nil { field = result }
Sub(fn, child) ==
    Let(Rewrite(fn, child), LAMBDA result : IF result # Nil THEN result ELSE child)

RewriteEachFirst(fn, ns) == [i \in 1..Len(ns) |-> Sub(fn, ns[1])]

\* for i, child := range ns { ... ns[i] = result }
RewriteEach(fn, ns) == [i \in 1..Len(ns) |-> Sub(fn, ns[i])]

\* a field tested against nil before it is rewritten
SubOpt(fn, child) == IF child # Nil THEN Sub(fn, child) ELSE child

\* node after rewriteChildren has rewritten its fields in place
rewriteChildren(fn, n) ==
    CASE n.k = "SelectStmt" ->
            [n EXCEPT !.Columns = RewriteEach(fn, @), !.From = SubOpt(fn, @),
                      !.Where = SubOpt(fn, @), !.GroupBy = RewriteEach(fn, @),
                      !.Having = SubOpt(fn, @)]
      [] n.k = "InsertStmt" ->
            [n EXCEPT !.Table = Sub(fn, @),
                      !.Values = [i \in 1..Len(@) |-> RewriteEach(fn, @[i])],
                      !.Select = SubOpt(fn, @)]
      [] n.k = "BinaryExpr" -> [n EXCEPT !.Left = Sub(fn, @), !.Right = Sub(fn, @)]
      [] n.k = "UnaryExpr" -> [n EXCEPT !.Operand = Sub(fn, @)]
      [] n.k = "ParenExpr" -> [n EXCEPT !.Expr = Sub(fn, @)]
      [] n.k = "FuncExpr" -> [n EXCEPT !.Args = RewriteEach(fn, @)]
      [] n.k = "CaseExpr" ->
            [n EXCEPT !.Operand = SubOpt(fn, @),
                      !.Whens = [i \in 1..Len(@) |->
                                    [Cond |-> Sub(fn, @[i].Cond),
                                     Result |-> Sub(fn, @[i].Result)]],
                      !.Else = SubOpt(fn, @)]
      [] n.k = "BetweenExpr" ->
            [n EXCEPT !.Expr = Sub(fn, @), !.Low = Sub(fn, @), !.High = Sub(fn, @)]
      [] n.k = "IsExpr" -> [n EXCEPT !.Expr = Sub(fn, @)]
      [] n.k = "Subquery" -> [n EXCEPT !.Select = Sub(fn, @)]
      [] n.k = "AliasedExpr" -> [n EXCEPT !.Expr = Sub(fn, @)]
      [] n.k = "AliasedTableExpr" -> [n EXCEPT !.Expr = Sub(fn, @)]
      [] n.k = "JoinExpr" ->
            [n EXCEPT !.Left = Sub(fn, @), !.Right = Sub(fn, @), !.On = SubOpt(fn, @)]
      [] n.k = "ParenTableExpr" -> [n EXCEPT !.Expr = Sub(fn, @)]
      [] OTHER -> n

Rewrite(fn, node) ==
    IF node = Nil THEN Nil ELSE Apply(fn, rewriteChildren(fn, node))

----------------------------------------------------------------------------
(* Package ast, pool.go: the node pools.  A pool holds cells; a cell is a  *)
(* piece of storage, named by id, together with the value left in it.  A   *)
(* tree built by a parse carries in every node that came from a pool, or   *)
(* can be put into one, the id of its cell, and next to every slice field  *)
(* that came from a pool the id of its backing array (0: a nil slice).     *)

\* the zero value X{} of a node struct
Zero == [k |-> "zero"]

PoolNames ==
    {"ColName", "Literal", "BinaryExpr", "FuncExpr", "AliasedExpr", "SelectStmt",
     "TableName", "OrderByExpr", "AliasedTableExpr", "JoinExpr", "UnaryExpr",
     "SelectExprSlice", "ExprSlice", "OrderBySlice"}

SlicePools == {"SelectExprSlice", "ExprSlice", "OrderBySlice"}

\* a position in a tree is the path of steps from the root; a step names a
\* field and, in a list, the element
MapEachAt(ns, f, G(_, _)) == [i \in 1..Len(ns) |-> G(ns[i], <<f, i>>)]

MapOptAt(c, f, G(_, _)) == IF c = Nil THEN c ELSE G(c, <<f, 0>>)

\* n with G applied to every node it holds in a field and to the step there
MapChildrenAt(n, G(_, _)) ==
    CASE n.k = "SelectStmt" ->
            [n EXCEPT !.Columns = MapEachAt(@, 1, G), !.From = MapOptAt(@, 2, G),
                      !.Where = MapOptAt(@, 3, G), !.GroupBy = MapEachAt(@, 4, G),
                      !.Having = MapOptAt(@, 5, G)]
      [] n.k = "InsertStmt" ->
            [n EXCEPT !.Table = MapOptAt(@, 1, G), !.Columns = MapEachAt(@, 2, G),
                      !.Select = MapOptAt(@, 3, G),
                      !.Values = [r \in 1..Len(@) |-> MapEachAt(@[r], 3 + r, G)]]
      [] n.k = "TruncateStmt" -> [n EXCEPT !.Tables = MapEachAt(@, 1, G)]
      [] n.k = "BinaryExpr" ->
            [n EXCEPT !.Left = MapOptAt(@, 1, G), !.Right = MapOptAt(@, 2, G)]
      [] n.k = "UnaryExpr" -> [n EXCEPT !.Operand = MapOptAt(@, 1, G)]
      [] n.k \in {"ParenExpr", "IsExpr", "CollateExpr", "AliasedExpr",
                  "AliasedTableExpr", "ParenTableExpr"} ->
            [n EXCEPT !.Expr = MapOptAt(@, 1, G)]
      [] n.k = "FuncExpr" -> [n EXCEPT !.Args = MapEachAt(@, 1, G)]
      [] n.k = "BetweenExpr" ->
            [n EXCEPT !.Expr = MapOptAt(@, 1, G), !.Low = MapOptAt(@, 2, G),
                      !.High = MapOptAt(@, 3, G)]
      [] n.k = "CaseExpr" ->
            [n EXCEPT !.Operand = MapOptAt(@, 1, G), !.Else = MapOptAt(@, 2, G),
                      !.Whens = [i \in 1..Len(@) |->
                                    [Cond |-> MapOptAt(@[i].Cond, 2 + 2 * i, G),
                                     Result |-> MapOptAt(@[i].Result, 3 + 2 * i, G)]]]
      [] n.k = "Subquery" -> [n EXCEPT !.Select = MapOptAt(@, 1, G)]
      [] n.k = "JoinExpr" ->
            [n EXCEPT !.Left = MapOptAt(@, 1, G), !.Right = MapOptAt(@, 2, G),
                      !.On = MapOptAt(@, 3, G)]
      [] OTHER -> n

\* the tree n at position at, every node marked with its position
RECURSIVE Labelled(_, _)
Labelled(n, at) ==
    IF isNilExpr(n) THEN n
    ELSE [at |-> at] @@ MapChildrenAt(n, LAMBDA c, s : Labelled(c, Append(at, s)))

\* one request for storage made while parsing: the cell of the node at a
\* position (slot "node") or of one of its slices, from the pool named or,
\* where the parser writes &ast.T{...}, from the allocator
Request(n, slot, pool) == [at |-> n.at, slot |-> slot, pool |-> pool, new |-> FALSE]

Alloc(n, pool) == [at |-> n.at, slot |-> "node", pool |-> pool, new |-> TRUE]

\* the requests a parse makes to build n, in the order it makes them
RECURSIVE Gets(_)
GetsEach(ns) == Flatten([i \in 1..Len(ns) |-> Gets(ns[i])])

Gets(n) ==
    IF isNilExpr(n) THEN <<>>
    ELSE CASE n.k = "SelectStmt" ->
                 <<Request(n, "node", "SelectStmt"),
                   Request(n, "Columns", "SelectExprSlice")>>
                 \o GetsEach(n.Columns) \o Gets(n.From) \o Gets(n.Where)
                 \o (IF n.GroupBy = <<>> THEN <<>>
                     ELSE <<Request(n, "GroupBy", "ExprSlice")>> \o GetsEach(n.GroupBy))
                 \o Gets(n.Having)
           [] n.k = "FuncExpr" ->
                 <<Request(n, "node", "FuncExpr"), Request(n, "Args", "ExprSlice")>>
                 \o GetsEach(n.Args)
           [] n.k = "UnaryExpr" -> <<Request(n, "node", "UnaryExpr")>> \o Gets(n.Operand)
           [] n.k = "JoinExpr" ->
                 Gets(n.Left) \o <<Request(n, "node", "JoinExpr")>>
                 \o Gets(n.Right) \o Gets(n.On)
           [] n.k = "Literal" ->
                 IF n.Type \in {"LiteralNull", "LiteralBool"} THEN <<Alloc(n, "Literal")>>
                 ELSE <<Request(n, "node", "Literal")>>
           [] n.k \in {"ColName", "TableName"} -> <<Request(n, "node", n.k)>>
           [] n.k \in {"BinaryExpr", "AliasedExpr", "AliasedTableExpr"} ->
                 GetsEach(AstChildren(n)) \o <<Request(n, "node", n.k)>>
           [] n.k = "InsertStmt" ->
                 Gets(n.Table) \o GetsEach(Flatten(n.Values)) \o Gets(n.Select)
           [] OTHER -> GetsEach(AstChildren(n))

\* what a parse finds in the storage it is given, or <<>> when it asked for none
Found(got, at, slot) ==
    {c \in {got[i] : i \in 1..Len(got)} : c.at = at /\ c.slot = slot}

\* the node a parse leaves in a cell that held stale: the fields it assigns
\* on every path are fresh's, the others keep what the cell held
Reuse(fresh, stale) ==
    IF stale = Zero THEN fresh
    ELSE CASE fresh.k = "SelectStmt" ->
                 [fresh EXCEPT !.Distinct = @ \/ stale.Distinct,
                               !.From = IF @ = Nil THEN stale.From ELSE @,
                               !.Where = IF @ = Nil THEN stale.Where ELSE @,
                               !.GroupBy = IF @ = <<>> THEN stale.GroupBy ELSE @,
                               !.GroupById =
                                   IF fresh.GroupBy = <<>> THEN stale.GroupById ELSE @,
                               !.Having = IF @ = Nil THEN stale.Having ELSE @]
           [] fresh.k = "FuncExpr" -> [fresh EXCEPT !.Distinct = @ \/ stale.Distinct]
           [] fresh.k = "JoinExpr" ->
                 [fresh EXCEPT !.On = IF @ = Nil THEN stale.On ELSE @,
                               !.Using = IF @ = <<>> THEN stale.Using ELSE @]
           [] OTHER -> fresh

\* the id of the backing array of a slice field, and the elements the
\* parser appended to: those the array was handed out with, then its own
SliceId(got, n, slot) ==
    IF Found(got, n.at, slot) = {} THEN 0
    ELSE (CHOOSE c \in Found(got, n.at, slot) : TRUE).id

SliceOf(got, n, slot, elems) ==
    IF Found(got, n.at, slot) = {} THEN elems
    ELSE (CHOOSE c \in Found(got, n.at, slot) : TRUE).stale \o elems

\* the node at a position once its storage is known
InCell(got, n) ==
    IF Found(got, n.at, "node") = {} THEN n
    ELSE Let(CHOOSE c \in Found(got, n.at, "node") : TRUE, LAMBDA c :
         [id |-> c.id] @@ Reuse(n, c.stale))

WithSlices(got, n) ==
    CASE n.k = "SelectStmt" ->
            [ColumnsId |-> SliceId(got, n, "Columns"),
             GroupById |-> SliceId(got, n, "GroupBy")]
            @@ [n EXCEPT !.Columns = SliceOf(got, n, "Columns", @),
                         !.GroupBy = SliceOf(got, n, "GroupBy", @)]
      [] n.k = "FuncExpr" ->
            [ArgsId |-> SliceId(got, n, "Args")]
            @@ [n EXCEPT !.Args = SliceOf(got, n, "Args", @)]
      [] OTHER -> n

\* the tree a parse returns: the labelled tree n in the storage got
RECURSIVE Pooled(_, _)
Pooled(n, got) ==
    IF isNilExpr(n) THEN n
    ELSE Let(MapChildrenAt(n, LAMBDA c, s : Pooled(c, got)), LAMBDA m :
         Let(WithSlices(got, m), LAMBDA w : InCell(got, w)))

\* what sync.Pool's New puts in a cell: a zero node, an empty slice
NewValue(pool) == IF pool \in SlicePools THEN <<>> ELSE Zero

\* pool.Get(): the cells left in the pool once cell i is handed out
PoolAfterGetKeep(cells, i) == cells

PoolAfterGet(cells, i) == SubSeq(cells, 1, i - 1) \o SubSeq(cells, i + 1, Len(cells))

\* pool.Put(c): a pool keeps no order, so its cells are listed by id
PoolAfterPut(cells, c) ==
    Let(Cardinality({i \in 1..Len(cells) : cells[i].id <= c.id}), LAMBDA k :
    SubSeq(cells, 1, k) \o <<c>> \o SubSeq(cells, k + 1, Len(cells)))

\* parseFuncCall asks for an argument slice only if the node it was given
\* has none
HasArgs(got, e) ==
    e.slot = "Args" /\ \E c \in Found(got, e.at, "node") : c.stale # Zero

\* Release<T>: the value a cell goes back into its pool with
ReleaseValueKeep(pool, val) == val

ReleaseValueTruncateOnly(pool, val) == IF pool \in SlicePools THEN <<>> ELSE val

ReleaseValue(pool, val) == IF pool \in SlicePools THEN <<>> ELSE Zero

\* one Release<T> call: the cell and what it holds when the call is made
Put(pool, id, val) == [pool |-> pool, id |-> id, val |-> val]

\* ReleaseAST(node): the Release calls it makes, in order
RECURSIVE ReleaseAST(_)
ReleaseEach(ns) == Flatten([i \in 1..Len(ns) |-> ReleaseAST(ns[i])])

ReleaseWhens(ws) ==
    Flatten([i \in 1..Len(ws) |-> ReleaseAST(ws[i].Cond) \o ReleaseAST(ws[i].Result)])

ReleaseAST(n) ==
    IF isNilExpr(n) THEN <<>>
    ELSE CASE n.k = "SelectStmt" ->
                 ReleaseEach(n.Columns)
                 \o (IF n.ColumnsId # 0 THEN <<Put("SelectExprSlice", n.ColumnsId, <<>>)>>
                     ELSE <<>>)
                 \o ReleaseAST(n.From) \o ReleaseAST(n.Where)
                 \o ReleaseEach(n.GroupBy)
                 \o (IF n.GroupById # 0 THEN <<Put("ExprSlice", n.GroupById, <<>>)>>
                     ELSE <<>>)
                 \o ReleaseAST(n.Having)
                 \o <<Put("SelectStmt", n.id, n)>>
           [] n.k \in {"ColName", "Literal", "TableName"} -> <<Put(n.k, n.id, n)>>
           [] n.k = "BinaryExpr" ->
                 ReleaseAST(n.Left) \o ReleaseAST(n.Right) \o <<Put(n.k, n.id, n)>>
           [] n.k = "FuncExpr" ->
                 ReleaseEach(n.Args)
                 \o (IF n.ArgsId # 0 THEN <<Put("ExprSlice", n.ArgsId, <<>>)>> ELSE <<>>)
                 \o <<Put(n.k, n.id, n)>>
           [] n.k \in {"AliasedExpr", "AliasedTableExpr"} ->
                 ReleaseAST(n.Expr) \o <<Put(n.k, n.id, n)>>
           [] n.k = "JoinExpr" ->
                 ReleaseAST(n.Left) \o ReleaseAST(n.Right) \o ReleaseAST(n.On)
                 \o <<Put(n.k, n.id, n)>>
           [] n.k = "UnaryExpr" -> ReleaseAST(n.Operand) \o <<Put(n.k, n.id, n)>>
           [] n.k = "ParenExpr" -> ReleaseAST(n.Expr)
           [] n.k = "Subquery" -> ReleaseAST(n.Select)
           [] n.k = "BetweenExpr" ->
                 ReleaseAST(n.Expr) \o ReleaseAST(n.Low) \o ReleaseAST(n.High)
           [] n.k = "CaseExpr" ->
                 ReleaseAST(n.Operand) \o ReleaseWhens(n.Whens) \o ReleaseAST(n.Else)
           [] OTHER -> <<>>

----------------------------------------------------------------------------
(* Inputs.  SQL text is built from words separated by one space.           *)

RECURSIVE JoinWords(_)
JoinWords(ws) ==
    IF ws = <<>> THEN <<>>
    ELSE IF Len(ws) = 1 THEN ws[1]
    ELSE ws[1] \o <<" ">> \o JoinWords(Tail(ws))

SeqsUpTo(S, n) == UNION {[1..k -> S] : k \in 0..n}

MaxStmtWords == 5

\* statement skeletons: parentheses, SELECT lists, an unfinished GROUP BY
StmtWords ==
    { <<"(">>, <<")">>, <<"S","E","L","E","C","T">>, <<"1">>,
      <<"G","R","O","U","P">>, <<";">> }

StmtInputs == {JoinWords(ws) : ws \in SeqsUpTo(StmtWords, MaxStmtWords)}

MaxTrailWords == 3

\* what may follow a statement: semicolons, comments, a stray literal
TrailWords == { <<";">>, <<"/","*","c","*","/">>, <<"-","-","c","\n">>, <<"1">> }

TrailInputs ==
    {JoinWords(pre \o ws) : pre \in {<<>>, << <<"S","E","L","E","C","T">>, <<"1">> >>},
                            ws \in SeqsUpTo(TrailWords, MaxTrailWords)}

MaxOps == 2

\* the twenty binary operators of isBinaryOp, as written in SQL
OpWords ==
    { <<"+">>, <<"-">>, <<"*">>, <<"/">>, <<"%">>, <<"=">>, <<"<",">">>, <<"<">>,
      <<">">>, <<"<","=">>, <<">","=">>, <<"A","N","D">>, <<"O","R">>, <<"X","O","R">>,
      <<"&">>, <<"|">>, <<"^">>, <<"<","<">>, <<">",">">>, <<"|","|">> }

Operands == << <<"a">>, <<"b">>, <<"c">>, <<"d">>, <<"e">> >>

\* a o1 b o2 c o1 d ...: n operators, alternating o1 and o2
RECURSIVE ExprChain(_, _, _)
ExprChain(o1, o2, n) ==
    IF n = 0 THEN <<Operands[1]>>
    ELSE ExprChain(o1, o2, n - 1) \o <<IF n % 2 = 1 THEN o1 ELSE o2, Operands[n + 1]>>

ExprInputs ==
    {JoinWords(<< <<"S","E","L","E","C","T">> >> \o ExprChain(o1, o2, n) \o suffix) :
        o1 \in OpWords, o2 \in OpWords, n \in 0..MaxOps,
        suffix \in {<<>>, << <<"I","S">>, <<"N","U","L","L">> >>}}

MaxSetOps == 2

SetOpWords ==
    { <<"U","N","I","O","N">>, <<"U","N","I","O","N"," ","A","L","L">>,
      <<"I","N","T","E","R","S","E","C","T">>, <<"E","X","C","E","P","T">> }

Digits == <<"1", "2", "3", "4", "5">>

\* SELECT 1 op SELECT 2 op ... with the operators ops
RECURSIVE SetOpChain(_)
SetOpChain(ops) ==
    IF ops = <<>> THEN << <<"S","E","L","E","C","T">>, <<Digits[1]>> >>
    ELSE SetOpChain(SubSeq(ops, 1, Len(ops) - 1))
         \o <<ops[Len(ops)], <<"S","E","L","E","C","T">>, <<Digits[Len(ops) + 1]>> >>

SetOpInputs == {JoinWords(SetOpChain(ops)) : ops \in SeqsUpTo(SetOpWords, MaxSetOps)}

MaxNameWords == 2

\* collations and aliases, bare and quoted
NameWords ==
    { <<"C","O","L","L","A","T","E">>, <<"A","S">>, <<"b">>, <<"\"","b"," ","c","\"">> }

NameInputs ==
    {JoinWords(<< <<"S","E","L","E","C","T">>, <<"a">> >> \o ws) :
        ws \in SeqsUpTo(NameWords, MaxNameWords)}

SqlInputs == StmtInputs \cup TrailInputs \cup ExprInputs \cup SetOpInputs \cup NameInputs

MaxBetweenTail == 2

Word2(a, b) == <<a, b>>

\* the bounds written after BETWEEN and after its AND
BetweenLows ==
    { << <<"x">> >>, << <<"x">>, <<"+">>, <<"1">> >>, << <<"N","O","T">>, <<"x">> >> }

BetweenHighs ==
    { << <<"y">> >>, << <<"y">>, <<"+">>, <<"1">> >>, << <<"N","O","T">>, <<"y">> >>,
      << <<"y">>, <<"I","S">>, <<"N","U","L","L">> >> }

BetweenConnectives == { <<"A","N","D">>, <<"O","R">> }

\* what follows the upper bound: n pairs of a connective and an operand
RECURSIVE BetweenTails(_)
BetweenTails(n) ==
    IF n = 0 THEN { <<>> }
    ELSE BetweenTails(n - 1) \cup
         { t \o Word2(c, <<"z">>) : t \in BetweenTails(n - 1), c \in BetweenConnectives }

\* SELECT a [NOT] BETWEEN lo AND|OR hi tail
BetweenInputs ==
    { JoinWords(<< <<"S","E","L","E","C","T">>, <<"a">> >> \o not \o << <<"B","E","T","W","E","E","N">> >> \o lo
                \o <<sep>> \o hi \o tail) :
        not \in { <<>>, << <<"N","O","T">> >> }, lo \in BetweenLows,
        sep \in BetweenConnectives, hi \in BetweenHighs,
        tail \in BetweenTails(MaxBetweenTail) }

MaxWhens == 2

\* one WHEN clause: complete, with a comparison, or without its THEN
CaseWhenWords ==
    { << <<"W","H","E","N">>, <<"x">>, <<"T","H","E","N">>, <<"1">> >>,
      << <<"W","H","E","N">>, <<"x">>, <<"=">>, <<"1">>, <<"T","H","E","N">>, <<"y">> >>,
      << <<"W","H","E","N">>, <<"x">> >> }

RECURSIVE CaseWhenRuns(_)
CaseWhenRuns(n) ==
    IF n = 0 THEN { <<>> }
    ELSE CaseWhenRuns(n - 1) \cup
         { r \o wh : r \in CaseWhenRuns(n - 1), wh \in CaseWhenWords }

\* SELECT CASE [a] {WHEN ...} [ELSE 1] [END]
CaseInputs ==
    { JoinWords(<< <<"S","E","L","E","C","T">>, <<"C","A","S","E">> >> \o operand \o whens \o else \o end) :
        operand \in { <<>>, << <<"a">> >> }, whens \in CaseWhenRuns(MaxWhens),
        else \in { <<>>, << <<"E","L","S","E">>, <<"1">> >> }, end \in { <<>>, << <<"E","N","D">> >> } }

\* the keywords between the two operands of a join
JoinKeywordWords ==
    { << <<"J","O","I","N">> >>,
      << <<"I","N","N","E","R">>, <<"J","O","I","N">> >>,
      << <<"L","E","F","T">>, <<"J","O","I","N">> >>,
      << <<"L","E","F","T">>, <<"O","U","T","E","R">>, <<"J","O","I","N">> >>,
      << <<"R","I","G","H","T">>, <<"J","O","I","N">> >>,
      << <<"F","U","L","L">>, <<"J","O","I","N">> >>,
      << <<"C","R","O","S","S">>, <<"J","O","I","N">> >>,
      << <<"N","A","T","U","R","A","L">>, <<"J","O","I","N">> >>,
      << <<"N","A","T","U","R","A","L">>, <<"L","E","F","T">>, <<"J","O","I","N">> >>,
      << <<"L","E","F","T">>, <<"N","A","T","U","R","A","L">>, <<"J","O","I","N">> >>,
      << <<"L","E","F","T">>, <<"C","R","O","S","S">>, <<"J","O","I","N">> >>,
      << <<",">> >> }

\* the right operand of a join
JoinRightWords ==
    { << <<"b">> >>,
      << <<"b">>, <<"A","S">>, <<"t">> >>,
      << <<"(">>, <<"c">>, <<"J","O","I","N">>, <<"d">>, <<"O","N">>, <<"x">>, <<")">> >>,
      << <<"(">>, <<"S","E","L","E","C","T">>, <<"1">>, <<")">> >> }

\* what follows the right operand
JoinConditionWords ==
    { <<>>, << <<"O","N">>, <<"x">> >>,
      << <<"U","S","I","N","G">>, <<"(">>, <<"c">>, <<")">> >>,
      << <<"O","N">>, <<"x">>, <<"U","S","I","N","G">>, <<"(">>, <<"c">>, <<")">> >>,
      << <<"U","S","I","N","G">>, <<"(">>, <<"c">>, <<")">>, <<"O","N">>, <<"x">> >> }

\* a second join after the first
JoinSecondWords ==
    { <<>>, << <<"J","O","I","N">>, <<"e">>, <<"O","N">>, <<"z">> >>,
      << <<"C","R","O","S","S">>, <<"J","O","I","N">>, <<"e">>, <<"O","N">>, <<"z">> >>,
      << <<"N","A","T","U","R","A","L">>, <<"J","O","I","N">>, <<"e">> >> }

\* SELECT 1 FROM a <join> <right> <condition> <second join>
JoinInputs ==
    { JoinWords(<< <<"S","E","L","E","C","T">>, <<"1">>, <<"F","R","O","M">>, <<"a">> >> \o kw \o right \o cond \o second) :
        kw \in JoinKeywordWords, right \in JoinRightWords,
        cond \in JoinConditionWords, second \in JoinSecondWords }

\* the optional column list of an INSERT
InsertColumnWords ==
    { <<>>, << <<"(">>, <<"a">>, <<")">> >>, << <<"(">>, <<"a">>, <<",">>, <<"b">>, <<")">> >>, << <<"(">>, <<")">> >> }

\* what follows the table and the column list
InsertSourceWords ==
    { <<>>, << <<"V","A","L","U","E","S">> >>,
      << <<"V","A","L","U","E","S">>, <<"(">>, <<"1">>, <<")">> >>,
      << <<"V","A","L","U","E","S">>, <<"(">>, <<"1">>, <<",">>, <<"D","E","F","A","U","L","T">>, <<")">>, <<",">>, <<"(">>, <<"2">>, <<",">>, <<"x">>, <<")">> >>,
      << <<"V","A","L","U","E","S">>, <<"(">>, <<")">> >>,
      << <<"S","E","L","E","C","T">>, <<"1">> >>,
      << <<"S","E","L","E","C","T">>, <<"a">>, <<"F","R","O","M">>, <<"u">> >>,
      << <<"D","E","F","A","U","L","T">>, <<"V","A","L","U","E","S">> >>,
      << <<"D","E","F","A","U","L","T">> >>,
      << <<"(">>, <<"S","E","L","E","C","T">>, <<"1">>, <<")">> >> }

\* INSERT INTO t [columns] [source] [DEFAULT VALUES | SELECT 2]
InsertInputs ==
    { JoinWords(<< <<"I","N","S","E","R","T">>, <<"I","N","T","O">>, <<"t">> >> \o cols \o src \o more) :
        cols \in InsertColumnWords, src \in InsertSourceWords,
        more \in { <<>>, << <<"D","E","F","A","U","L","T">>, <<"V","A","L","U","E","S">> >>, << <<"S","E","L","E","C","T">>, <<"2">> >> } }
    \cup { JoinWords(<< <<"I","N","S","E","R","T">>, <<"t">> >>), JoinWords(<< <<"I","N","S","E","R","T">>, <<"I","N","T","O">> >>) }

\* TRUNCATE [TABLE] <names> [CASCADE], bare or in parentheses
TruncateInputs ==
    { JoinWords(open \o << <<"T","R","U","N","C","A","T","E">> >> \o table \o names \o cascade
                \o (IF open = <<>> THEN <<>> ELSE << <<")">> >>)) :
        open \in { <<>>, << <<"(">> >> }, table \in { <<>>, << <<"T","A","B","L","E">> >> },
        names \in { <<>>, << <<"t">> >>, << <<"t">>, <<",">>, <<"u">> >>, << <<"s">>, <<".">>, <<"t">> >>, << <<"t">>, <<",">> >> },
        cascade \in { <<>>, << <<"C","A","S","C","A","D","E">> >> } }

\* inputs of the clauses and statements beyond the SELECT core
GrammarInputs ==
    BetweenInputs \cup CaseInputs \cup JoinInputs \cup InsertInputs \cup TruncateInputs

\* statements with function calls, subqueries and every clause of the
\* SELECT core
TreeInputs ==
    { JoinWords(<< <<"S","E","L","E","C","T">>, <<"f">>, <<"(">>, <<"a">>, <<",">>, <<"b">>, <<")">>, <<",">>, <<"c">>, <<"F","R","O","M">>, <<"t">>, <<"W","H","E","R","E">>, <<"a">>, <<"=">>, <<"1">>, <<"G","R","O","U","P">>, <<"B","Y">>, <<"a">>, <<",">>, <<"b">>, <<"H","A","V","I","N","G">>, <<"N","O","T">>, <<"a">>, <<"I","S">>, <<"N","U","L","L">> >>),
      JoinWords(<< <<"S","E","L","E","C","T">>, <<"(">>, <<"S","E","L","E","C","T">>, <<"1">>, <<")">>, <<",">>, <<"(">>, <<"a">>, <<")">>, <<"F","R","O","M">>, <<"(">>, <<"S","E","L","E","C","T">>, <<"b">>, <<"F","R","O","M">>, <<"t">>, <<")">>, <<"A","S">>, <<"s">> >>),
      JoinWords(<< <<"S","E","L","E","C","T">>, <<"-">>, <<"a">>, <<"C","O","L","L","A","T","E">>, <<"b">>, <<"+">>, <<"1">>, <<",">>, <<"c">> >>),
      JoinWords(<< <<"S","E","L","E","C","T">>, <<"*">>, <<"F","R","O","M">>, <<"t">>, <<"W","H","E","R","E">>, <<"a">>, <<"B","E","T","W","E","E","N">>, <<"1">>, <<"A","N","D">>, <<"2">> >>) }

\* the statements handed to Walk and Rewrite
VisitInputs == GrammarInputs \cup NameInputs \cup TreeInputs

\* the statements parsed while the pools are in use
PoolInputs ==
    { JoinWords(<< <<"S","E","L","E","C","T">>, <<"D","I","S","T","I","N","C","T">>, <<"*">>, <<"F","R","O","M">>, <<"t">> >>),
      JoinWords(<< <<"S","E","L","E","C","T">>, <<"1">> >>),
      JoinWords(<< <<"S","E","L","E","C","T">>, <<"N","U","L","L">> >>) }

\* the items Next returns for the lexer l when Peek is never called, up to
\* and including EOF
RECURSIVE LexAll(_)
LexAll(l) ==
    Let(LexNext(l), LAMBDA r :
    IF r.item.Type = "EOF" THEN <<r.item>> ELSE <<r.item>> \o LexAll(r.l))

\* the items Next returns for inp, up to and excluding EOF
RECURSIVE LexRest(_)
LexRest(l) ==
    LET r == LexNext(l) IN
    IF r.item.Type = "EOF" THEN <<>> ELSE <<r.item>> \o LexRest(r.l)

TokenTypes(inp) == LET its == LexRest(NewLexer(inp)) IN [i \in 1..Len(its) |-> its[i].Type]

----------------------------------------------------------------------------
(* The library as a state machine: a caller parses input with Parse or     *)
(* ParseAll, formats an accepted tree with String and parses the text      *)
(* again.                                                                  *)

MaxRounds == 3

NoVisit == [call |-> "none"]

\* no pool in use
NoHeap == [pools |-> <<>>]

NoResult == [panicked |-> FALSE, stmt |-> Nil, err |-> NoError, errors |-> <<>>]

Init ==
    /\ input \in SqlInputs
    /\ lex = NewLexer(input)
    /\ toks = <<>>
    /\ out = [call |-> "none", texts |-> <<>>, res |-> NoResult]
    /\ visit = NoVisit
    /\ heap = NoHeap

\* machparse.Parse(input)
DoParse ==
    /\ out.call = "none"
    /\ out' = [call |-> "Parse", texts |-> <<>>, res |-> Parse(NewParser(input))]
    /\ UNCHANGED <<input, lex, toks, visit, heap>>

\* machparse.ParseAll(input)
DoParseAll ==
    /\ out.call = "none"
    /\ out' = [call |-> "ParseAll", texts |-> <<>>, res |-> ParseAll(NewParser(input))]
    /\ UNCHANGED <<input, lex, toks, visit, heap>>

Accepted(res) == ~res.panicked /\ res.err = NoError /\ res.stmt # Nil

\* machparse.String(stmt) on the tree the last Parse returned
DoString ==
    /\ out.call = "Parse"
    /\ Accepted(out.res)
    /\ Len(out.texts) < MaxRounds
    /\ out' = [out EXCEPT !.call = "String", !.texts = Append(@, Format(out.res.stmt))]
    /\ UNCHANGED <<input, lex, toks, visit, heap>>

\* machparse.Parse on the text String produced
DoReparse ==
    /\ out.call = "String"
    /\ out' = [out EXCEPT !.call = "Parse",
                          !.res = Parse(NewParser(out.texts[Len(out.texts)]))]
    /\ UNCHANGED <<input, lex, toks, visit, heap>>

Next == DoParse \/ DoParseAll \/ DoString \/ DoReparse

Spec == Init /\ [][Next]_vars

InitGrammar ==
    /\ input \in GrammarInputs
    /\ lex = NewLexer(input)
    /\ toks = <<>>
    /\ out = [call |-> "none", texts |-> <<>>, res |-> NoResult]
    /\ visit = NoVisit
    /\ heap = NoHeap

SpecGrammar == InitGrammar /\ [][Next]_vars

----------------------------------------------------------------------------
(* A caller parses a statement and traverses the tree once, with Walk or   *)
(* with Rewrite.                                                           *)

\* the node kinds on which the caller's visitor returns false
StopSets ==
    { {}, {"BinaryExpr"}, {"AliasedExpr"}, {"JoinExpr"}, {"SelectStmt"},
      {"CaseExpr", "Subquery", "TableName"} }

ApplyFuncs == {"identity", "qualify", "zero"}

\* machparse.Walk(stmt, fn)
DoWalk ==
    /\ out.call = "Parse" /\ Accepted(out.res)
    /\ visit.call = "none"
    /\ \E stop \in StopSets :
          visit' = [call |-> "Walk", stop |-> stop,
                    calls |-> WalkFunc(out.res.stmt, stop)]
    /\ UNCHANGED <<input, lex, toks, out, heap>>

\* machparse.Rewrite(stmt, fn): the children are rewritten inside the
\* caller's tree, before keeps the tree as it was
DoRewrite ==
    /\ out.call = "Parse" /\ Accepted(out.res)
    /\ visit.call = "none"
    /\ \E fn \in ApplyFuncs :
          /\ visit' = [call |-> "Rewrite", fn |-> fn, before |-> out.res.stmt,
                       result |-> Rewrite(fn, out.res.stmt)]
          /\ out' = [out EXCEPT !.res.stmt = rewriteChildren(fn, @)]
    /\ UNCHANGED <<input, lex, toks, heap>>

InitVisit ==
    /\ input \in VisitInputs
    /\ lex = NewLexer(input)
    /\ toks = <<>>
    /\ out = [call |-> "none", texts |-> <<>>, res |-> NoResult]
    /\ visit = NoVisit
    /\ heap = NoHeap

NextVisit == DoParse \/ DoWalk \/ DoRewrite

SpecVisit == InitVisit /\ [][NextVisit]_vars

----------------------------------------------------------------------------
(* Threads that call Parse and Repool, each on its own inputs and trees.   *)
(* A thread takes one step at a time: a Parse asks for the storage of its  *)
(* nodes one cell after another, a Repool gives cells back one Release     *)
(* after another; sync.Pool's Get and Put are atomic.  A caller recycles   *)
(* the tree a Parse returned, at once or later or never.  The pools start  *)
(* as an earlier Parse and Repool of `SELECT 1` left them.                 *)

NumThreads == 2

MaxParses == 2

Threads == 1..NumThreads

IdleThread ==
    [pc |-> "idle", input |-> <<>>, tree |-> Nil, todo |-> <<>>, got |-> <<>>,
     miss |-> FALSE]

\* the storage a Parse is given when every pool is empty
AllNew(gets) ==
    [i \in 1..Len(gets) |-> [at |-> gets[i].at, slot |-> gets[i].slot, id |-> i,
                             stale |-> NewValue(gets[i].pool), from |-> "new"]]

\* the pools once the Release calls puts have been made
RECURSIVE PutAll(_, _)
PutAll(pools, puts) ==
    IF puts = <<>> THEN pools
    ELSE Let([id |-> Head(puts).id,
              val |-> ReleaseValue(Head(puts).pool, Head(puts).val)], LAMBDA c :
         Let([pools EXCEPT ![Head(puts).pool] = PoolAfterPut(@, c)], LAMBDA ps :
         PutAll(ps, Tail(puts))))

\* the tree Parse returns for `SELECT 1`
WarmTree ==
    [k |-> "SelectStmt", StartPos |-> [Offset |-> 0, Line |-> 1, Column |-> 1],
     EndPos |-> [Offset |-> 8, Line |-> 1, Column |-> 9], Distinct |-> FALSE,
     Columns |-> <<[k |-> "AliasedExpr",
                    Expr |-> [k |-> "Literal", Type |-> "LiteralInt", Value |-> <<"1">>],
                    Alias |-> <<>>]>>,
     From |-> Nil, Where |-> Nil, GroupBy |-> <<>>, Having |-> Nil]

InitPool ==
    /\ input = <<>>
    /\ lex = NewLexer(input)
    /\ toks = <<>>
    /\ out = [call |-> "none", texts |-> <<>>, res |-> NoResult]
    /\ visit = NoVisit
    /\ \E tree \in {Labelled(WarmTree, <<>>)} :
       \E gets \in {Gets(tree)} :
       \E built \in {Pooled(tree, AllNew(gets))} :
       \E puts \in {ReleaseAST(built)} :
          heap = [pools |-> PutAll([p \in PoolNames |-> <<>>], puts), parses |-> 0,
                  th |-> [t \in Threads |-> IdleThread]]

\* machparse.Parse(s) is called on thread t
PoolParse(t) ==
    /\ heap.th[t].pc = "idle"
    /\ heap.parses < MaxParses
    /\ \E s \in PoolInputs, miss \in BOOLEAN :
         \E res \in {Parse(NewParser(s))} :
         \E tree \in {Labelled(res.stmt, <<>>)} :
            /\ Accepted(res)
            /\ heap' = [heap EXCEPT !.parses = @ + 1, !.th[t] =
                           [@ EXCEPT !.pc = "parsing", !.input = s, !.tree = tree,
                                     !.todo = Gets(tree), !.got = <<>>,
                                     !.miss = miss]]
    /\ UNCHANGED <<input, lex, toks, out, visit>>

\* the ids of the cells held by the sequence cells
IdsIn(cells) == {cells[i].id : i \in 1..Len(cells)}

\* the storage in use: the cells in the pools, those of the trees being
\* built or held, those a Repool has still to release
InUse ==
    UNION {IdsIn(heap.pools[p]) : p \in PoolNames}
    \cup UNION {IdsIn(heap.th[t].got) : t \in Threads}
    \cup UNION {IdsIn(heap.th[t].todo) : t \in {u \in Threads : heap.th[u].pc = "releasing"}}

\* the allocator hands out storage that is not in use; which storage does
\* not matter, so it is the first free id
NewId == CHOOSE n \in 1..(Cardinality(InUse) + 1) : n \notin InUse

\* the parse on thread t is given the cell id, holding stale, for request e
Take(t, e, id, stale, from, pools) ==
    heap' = [heap EXCEPT !.pools = pools,
                         !.th[t].got = Append(@, [at |-> e.at, slot |-> e.slot, id |-> id,
                                                  stale |-> stale, from |-> from]),
                         !.th[t].todo = Tail(@)]

\* ast.Get<T>(): a cell of the pool, any of them, or a new one from the
\* pool's New when the pool has none or, sync.Pool being free to act as if
\* it were empty, when this parse finds it so
GetCell(t, e) ==
    IF e.new THEN Take(t, e, NewId, Zero, "new", heap.pools)
    ELSE IF HasArgs(heap.th[t].got, e)
    THEN \E c \in Found(heap.th[t].got, e.at, "node") :
            Take(t, e, c.stale.ArgsId, c.stale.Args, "node", heap.pools)
    ELSE \/ /\ heap.pools[e.pool] = <<>> \/ heap.th[t].miss
            /\ Take(t, e, NewId, NewValue(e.pool), "new", heap.pools)
         \/ \E i \in 1..Len(heap.pools[e.pool]) :
               ~heap.th[t].miss /\
               Take(t, e, heap.pools[e.pool][i].id, heap.pools[e.pool][i].val, "pool",
                    [heap.pools EXCEPT ![e.pool] = PoolAfterGet(@, i)])

\* the parse on thread t makes its next request for storage
PoolGet(t) ==
    /\ heap.th[t].pc = "parsing"
    /\ heap.th[t].todo # <<>>
    /\ GetCell(t, Head(heap.th[t].todo))
    /\ UNCHANGED <<input, lex, toks, out, visit>>

\* Parse returns the tree to its caller
PoolParseDone(t) ==
    /\ heap.th[t].pc = "parsing"
    /\ heap.th[t].todo = <<>>
    /\ heap' = [heap EXCEPT !.th[t].pc = "holding",
                            !.th[t].tree = Pooled(@, heap.th[t].got)]
    /\ UNCHANGED <<input, lex, toks, out, visit>>

\* machparse.Repool(tree) is called on the tree thread t holds
PoolRepool(t) ==
    /\ heap.th[t].pc = "holding"
    /\ \E puts \in {ReleaseAST(heap.th[t].tree)} :
       heap' = [heap EXCEPT !.th[t] =
                   [@ EXCEPT !.pc = IF puts = <<>> THEN "idle" ELSE "releasing",
                             !.todo = puts, !.tree = Nil, !.got = <<>>]]
    /\ UNCHANGED <<input, lex, toks, out, visit>>

\* the Repool on thread t makes its next Release call
PoolPut(t) ==
    /\ heap.th[t].pc = "releasing"
    /\ heap' = [heap EXCEPT
                   !.pools = PutAll(@, <<Head(heap.th[t].todo)>>),
                   !.th[t].todo = Tail(@),
                   !.th[t].pc = IF Len(heap.th[t].todo) = 1 THEN "idle" ELSE @]
    /\ UNCHANGED <<input, lex, toks, out, visit>>

NextPool ==
    \E t \in Threads :
        \/ PoolParse(t)
        \/ PoolGet(t)
        \/ PoolParseDone(t)
        \/ PoolRepool(t)
        \/ PoolPut(t)

SpecPool == InitPool /\ [][NextPool]_vars

----------------------------------------------------------------------------
(* The lexer driven directly: a caller interleaves Next and Peek until     *)
(* Next has returned EOF.                                                  *)

MaxLexLen == 4

LexAlphabet == {"'", "\"", Backtick, "[", "]", "/", "*", "$", "a", "\\"}

LexInputs == SeqsUpTo(LexAlphabet, MaxLexLen)

InitLex ==
    /\ input \in LexInputs
    /\ lex = NewLexer(input)
    /\ toks = <<>>
    /\ out = [call |-> "none", texts |-> <<>>, res |-> NoResult]
    /\ visit = NoVisit
    /\ heap = NoHeap

SawEOF == toks # <<>> /\ toks[Len(toks)].Type = "EOF"

LexNextStep ==
    /\ ~SawEOF
    /\ lex' = LexNext(lex).l
    /\ toks' = Append(toks, LexNext(lex).item)
    /\ UNCHANGED <<input, out, visit, heap>>

LexPeekStep ==
    /\ ~SawEOF
    /\ lex' = LexPeek(lex).l
    /\ UNCHANGED <<input, toks, out, visit, heap>>

NextLex == LexNextStep \/ LexPeekStep

SpecLex == InitLex /\ [][NextLex]_vars

(* A caller hands arbitrary bytes to the lexer and to Parse and ParseAll.   *)

MaxTermLen == 4

TermAlphabet == {"$", "#", "a", "(", ";", "-", "\n"}

\* statements separated by semicolons and comments
TermStatements ==
    { JoinWords(<< <<"S","E","L","E","C","T">>, <<"1">>, <<";">>, <<";">>, <<"-","-","c","\n">>, <<"S","E","L","E","C","T">>, <<"a">>, <<";">> >>),
      JoinWords(<< <<"#","#">>, <<"$","a">>, <<"S","E","L","E","C","T">>, <<"1">>, <<")">>, <<"S","E","L","E","C","T">>, <<"2">> >>),
      JoinWords(<< <<"(">>, <<"S","E","L","E","C","T">>, <<"1">>, <<")">>, <<"/","*","c","*","/">>, <<";">>, <<"x">> >>) }

TermInputs == SeqsUpTo(TermAlphabet, MaxTermLen) \cup TermStatements

InitTerm ==
    /\ input \in TermInputs
    /\ lex = NewLexer(input)
    /\ toks = <<>>
    /\ out = [call |-> "none", texts |-> <<>>, res |-> NoResult]
    /\ visit = NoVisit
    /\ heap = NoHeap

NextTerm == LexNextStep \/ LexPeekStep \/ DoParse \/ DoParseAll

SpecTerm == InitTerm /\ [][NextTerm]_vars

(* A caller parses one input after another through the package functions, *)
(* which take the Parser and the Lexer from their pools.                   *)

MaxPooled == 1

ReuseInputs ==
    { <<>>,
      JoinWords(<< <<"S","E","L","E","C","T">>, <<"1">> >>),
      JoinWords(<< <<"S","E","L","E","C","T">>, <<"a","\n">>, <<"N","O","T">>, <<"b">> >>),
      JoinWords(<< <<"S","E","L","E","C","T">>, <<"a","\n",",","\n","b">>, <<"-","-","c">> >>),
      JoinWords(<< <<"(">>, <<"S","E","L","E","C","T">>, <<"1">>, <<"G","R","O","U","P">>, <<")">> >>),
      JoinWords(<< <<"x">>, <<"'","a">> >>) }

InitReuse ==
    /\ input = <<>>
    /\ lex = NewLexer(input)
    /\ toks = <<>>
    /\ out = [call |-> "none", texts |-> <<>>, res |-> NoResult]
    /\ visit = NoVisit
    /\ heap = [parsers |-> {}, lexers |-> {}]

\* the pools after a call that took p and l from them and left the parser
\* res.p behind; a call that panicked puts nothing back
AfterCall(p, l, res) ==
    IF res.panicked
    THEN [parsers |-> heap.parsers \ {p}, lexers |-> heap.lexers \ {l}]
    ELSE [parsers |-> (heap.parsers \ {p}) \cup {ParserPut(res.p)},
          lexers |-> (heap.lexers \ {l}) \cup {res.p.lexer}]

\* what the Parser p and the Lexer l a call took still hold of their
\* previous use
Taken(p, l) ==
    [peeked |-> l.peeked, line |-> l.line, input |-> l.input,
     errors |-> Len(p.errors), cur |-> p.cur.Type]

Fits(pools) ==
    Cardinality(pools.parsers) <= MaxPooled /\ Cardinality(pools.lexers) <= MaxPooled

\* machparse.Parse(s): parser.Get, Parse, parser.Put
PooledParse ==
    \E s \in ReuseInputs, p \in heap.parsers \cup {ZeroParser},
       l \in heap.lexers \cup {ZeroLexer} :
       \E res \in {Parse(ParserGet(p, l, s))} :
          /\ Fits(AfterCall(p, l, res))
          /\ input' = s
          /\ out' = [call |-> "Parse", texts |-> <<>>, res |-> res, took |-> Taken(p, l)]
          /\ heap' = AfterCall(p, l, res)
          /\ UNCHANGED <<lex, toks, visit>>

\* machparse.ParseAll(s)
PooledParseAll ==
    \E s \in ReuseInputs, p \in heap.parsers \cup {ZeroParser},
       l \in heap.lexers \cup {ZeroLexer} :
       \E res \in {ParseAll(ParserGet(p, l, s))} :
          /\ Fits(AfterCall(p, l, res))
          /\ input' = s
          /\ out' = [call |-> "ParseAll", texts |-> <<>>, res |-> res, took |-> Taken(p, l)]
          /\ heap' = AfterCall(p, l, res)
          /\ UNCHANGED <<lex, toks, visit>>

\* sync.Pool lets go of an item
PoolDrop ==
    /\ \/ \E p \in heap.parsers : heap' = [heap EXCEPT !.parsers = @ \ {p}]
       \/ \E l \in heap.lexers : heap' = [heap EXCEPT !.lexers = @ \ {l}]
    /\ UNCHANGED <<input, lex, toks, out, visit>>

NextReuse == PooledParse \/ PooledParseAll \/ PoolDrop

SpecReuse == InitReuse /\ [][NextReuse]_vars

(* A string value is written by the formatter and the text is lexed.       *)

MaxStringLen == 5

StringAlphabet == {"\\", "'", "\n", "n", "a"}

\* decoded string values
StringValues == SeqsUpTo(StringAlphabet, MaxStringLen)

InitLiteral ==
    /\ input \in StringValues
    /\ lex = NewLexer(<<>>)
    /\ toks = <<>>
    /\ out = [call |-> "none", texts |-> <<>>, res |-> NoResult]
    /\ visit = NoVisit
    /\ heap = NoHeap

\* Formatter.formatStringLiteral(input)
DoFormatStringLiteral ==
    /\ out.call = "none"
    /\ out' = [out EXCEPT !.call = "formatStringLiteral",
                          !.texts = <<formatStringLiteral(input)>>]
    /\ UNCHANGED <<input, lex, toks, visit, heap>>

\* lexer.New on the text written, then Next until EOF
DoLexText ==
    /\ out.call = "formatStringLiteral"
    /\ lex' = NewLexer(out.texts[1])
    /\ toks' = LexAll(NewLexer(out.texts[1]))
    /\ out' = [out EXCEPT !.call = "Next"]
    /\ UNCHANGED <<input, visit, heap>>

NextLiteral == DoFormatStringLiteral \/ DoLexText

SpecLiteral == InitLiteral /\ [][NextLiteral]_vars

(* The same caller on inputs with line breaks, `#` and `$`.                *)

MaxPosLen == 4

PosAlphabet == {"\n", "'", "\\", "\"", "/", "*", "$", "#", "a", ">", "1"}

\* a block comment, a dollar-quoted block and a tagged one that span two
\* lines and are closed, each followed by another token
MultiLineInputs ==
    { <<"/", "*", "\n", "*", "/", "a">>,
      <<"$", "$", "\n", "$", "$", "a">>,
      <<"$", "a", "$", "\n", "$", "a", "$", "a">>,
      <<"a", " ", "-", "-", "a", "\n", "a">> }

\* every use of `#` in one input
HashInputs ==
    { <<"#", "#", "a", "1", " ", "#", ">", " ", "#", ">", ">", " ", "#", "a", "$", " ",
        "#", "#", " ", "a", "\n", "#", "1">> }

PosInputs == SeqsUpTo(PosAlphabet, MaxPosLen) \cup MultiLineInputs \cup HashInputs

InitPos ==
    /\ input \in PosInputs
    /\ lex = NewLexer(input)
    /\ toks = <<>>
    /\ out = [call |-> "none", texts |-> <<>>, res |-> NoResult]
    /\ visit = NoVisit
    /\ heap = NoHeap

SpecPos == InitPos /\ [][NextLex]_vars

----------------------------------------------------------------------------
(* C3: unterminated constructs                                             *)

\* the length of the opening delimiter of a quoted construct that starts at
\* 0-based offset o of inp, 0 when none starts there
OpenerLen(inp, o) ==
    LET has(d) == o + d < Len(inp)
        at(d) == inp[o + d + 1]
        tagEnd == CHOOSE e \in 1..(Len(inp) + 1) :
                     /\ \A d \in 1..(e - 1) : has(d) /\ isTagChar(at(d))
                     /\ ~(has(e) /\ isTagChar(at(e)))
    IN IF ~has(0) THEN 0
       ELSE IF at(0) \in {"'", "\"", Backtick} THEN 1
       ELSE IF at(0) = "[" /\ has(1) /\ (isIdentStart(at(1)) \/ at(1) \in {"#", "@"}) THEN 1
       ELSE IF at(0) = "/" /\ has(1) /\ at(1) = "*" THEN 2
       ELSE IF at(0) = "$" /\ has(1) /\ at(1) = "$" THEN 2
       ELSE IF at(0) = "$" /\ has(1) /\ isIdentStart(at(1)) /\ has(tagEnd) /\ at(tagEnd) = "$"
            THEN tagEnd + 1
       ELSE 0

\* no byte that could close the construct opened at o occurs after its opener
NoCloserAfter(inp, o) ==
    LET n == OpenerLen(inp, o)
        q == inp[o + 1]
        rest == (o + n + 1)..Len(inp)
    IN CASE q = "[" -> \A i \in rest : inp[i] # "]"
         [] q = "/" -> \A i \in rest : ~(inp[i] = "*" /\ i < Len(inp) /\ inp[i + 1] = "/")
         [] OTHER -> \A i \in rest : inp[i] # q

\* C3: Next never leaves the input (start <= pos <= len), and a string,
\* double-quoted, backtick or bracket identifier, block comment or
\* dollar-quoted string that is never closed comes back as one ILLEGAL token
\* whose text runs from the opening byte to the end of input, with only EOF
\* after it; a construct with no closing byte after the opener is ILLEGAL.
C3_Unterminated ==
    /\ lex.start <= lex.pos /\ lex.pos <= Len(input)
    /\ \A i \in 1..Len(toks) :
          LET tk == toks[i]
              o == tk.Pos.Offset
          IN OpenerLen(input, o) > 0 =>
                /\ NoCloserAfter(input, o) => tk.Type = "ILLEGAL"
                /\ tk.Type = "ILLEGAL" =>
                      /\ tk.Value = SubSeq(input, o + 1, Len(input))
                      /\ i < Len(toks) => (i + 1 = Len(toks) /\ toks[i + 1].Type = "EOF")

\* an unterminated construct after an ordinary token, lexed to the end
C3_Witness ==
    /\ Len(toks) = 3
    /\ toks[1].Type = "IDENT"
    /\ toks[2].Type = "ILLEGAL"
    /\ OpenerLen(input, toks[2].Pos.Offset) = 1
    /\ Len(toks[2].Value) = 2
    /\ toks[3].Type = "EOF"

----------------------------------------------------------------------------
(* Properties of Parse, ParseAll and String                                *)

InputItems == LexRest(NewLexer(input))

InputTypes == TokenTypes(input)

\* the outcome in out is that of the call made on input itself
FirstParse == out.call = "Parse" /\ out.texts = <<>>

Count(types, t) == Cardinality({i \in 1..Len(types) : types[i] = t})

Col(name) == [k |-> "ColName", Parts |-> <<name>>]

Unaliased(e) == [k |-> "AliasedExpr", Expr |-> e, Alias |-> <<>>]

\* C1: Parse and ParseAll return normally on every input: no call ends in a
\* panic.
C1_NoPanic == ~out.res.panicked

\* C2: when Parse accepts the input, the text String gives for the tree
\* parses again, formatting that second tree gives the same text byte for
\* byte, and so does a third round.
C2_RoundTrip ==
    /\ (out.call = "Parse" /\ Len(out.texts) >= 1) =>
          (~out.res.panicked /\ out.res.err = NoError)
    /\ Len(out.texts) >= 2 => out.texts[2] = out.texts[1]
    /\ Len(out.texts) >= 3 => out.texts[3] = out.texts[2]

\* C4: when a call of Parse or ParseAll that returns has recorded errors, the
\* error it returns is the first one recorded, and no later one.
C4_FirstError ==
    (out.call \in {"Parse", "ParseAll"} /\ ~out.res.panicked /\ Len(out.res.errors) >= 1) =>
        /\ out.res.err = out.res.errors[1]
        /\ \A i \in 2..Len(out.res.errors) :
              out.res.errors[i] # out.res.errors[1] => out.res.err # out.res.errors[i]

\* a Parse that recorded two different errors and returned the first
C4_Witness ==
    /\ out.call = "Parse"
    /\ Len(out.res.errors) >= 2
    /\ out.res.errors[2] # out.res.errors[1]
    /\ out.res.err = out.res.errors[1]

\* the tokens after the complete statement SELECT 1 or (SELECT 1) that opens
\* the input, when none of them could continue that statement
TrailingTokens(types) ==
    LET n == IF Len(types) >= 2 /\ SubSeq(types, 1, 2) = <<"SELECT", "INT">> THEN 2
             ELSE IF Len(types) >= 4
                     /\ SubSeq(types, 1, 4) = <<"LPAREN", "SELECT", "INT", "RPAREN">> THEN 4
             ELSE 0
        tail == SubSeq(types, n + 1, Len(types))
    IN IF n > 0 /\ \A i \in 1..Len(tail) :
                      tail[i] \in {"SEMICOLON", "COMMENT", "INT", "LPAREN", "RPAREN", "SELECT"}
       THEN [stmt |-> TRUE, tail |-> tail]
       ELSE [stmt |-> FALSE, tail |-> <<>>]

\* C5: Parse accepts a complete statement followed only by semicolons and
\* comments in any mix, and returns an error as soon as any other token
\* follows the statement.
C5_TrailingTokens ==
    (FirstParse /\ TrailingTokens(InputTypes).stmt) =>
        /\ ~out.res.panicked
        /\ Accepted(out.res) <=>
              \A i \in 1..Len(TrailingTokens(InputTypes).tail) :
                  TrailingTokens(InputTypes).tail[i] \in {"SEMICOLON", "COMMENT"}
        /\ ~Accepted(out.res) => out.res.err # NoError

\* a statement accepted with a semicolon and then a comment behind it
C5_Witness ==
    /\ FirstParse
    /\ Accepted(out.res)
    /\ InputTypes = <<"SELECT", "INT", "SEMICOLON", "COMMENT">>

\* C6: ParseAll on an input made only of semicolons, possibly mixed with
\* comments, returns the empty statement list and no error.
C6_OnlySemicolons ==
    (/\ out.call = "ParseAll"
     /\ Count(InputTypes, "SEMICOLON") >= 1
     /\ \A i \in 1..Len(InputTypes) : InputTypes[i] \in {"SEMICOLON", "COMMENT"}) =>
        (~out.res.panicked /\ out.res.err = NoError /\ out.res.stmt = <<>>)

\* C7 as stated: ParseAll returns no error only if a semicolon lies between
\* every two consecutive statements.
C7_SemicolonRequired ==
    (out.call = "ParseAll" /\ ~out.res.panicked /\ out.res.err = NoError) =>
        \A i \in 1..(Len(out.res.stmt) - 1) :
            \E j \in 1..Len(InputItems) :
                /\ InputItems[j].Type = "SEMICOLON"
                /\ out.res.stmt[i].StartPos.Offset < InputItems[j].Pos.Offset
                /\ InputItems[j].Pos.Offset < out.res.stmt[i + 1].StartPos.Offset

\* the input is SELECT <int> statements, each followed by any number of `;`
SelectRun(types) ==
    /\ Len(types) >= 2
    /\ types[1] = "SELECT"
    /\ \A i \in 1..Len(types) :
          /\ types[i] \in {"SELECT", "INT", "SEMICOLON"}
          /\ types[i] = "SELECT" => (i < Len(types) /\ types[i + 1] = "INT")
          /\ types[i] = "INT" => (i > 1 /\ types[i - 1] = "SELECT")

\* C7 amended: semicolons between statements are optional: on an input of
\* SELECT <int> statements, each followed by zero or more semicolons, ParseAll
\* returns no error and one statement for each SELECT.
C7_OptionalSemicolons ==
    (out.call = "ParseAll" /\ SelectRun(InputTypes)) =>
        /\ ~out.res.panicked /\ out.res.err = NoError
        /\ Len(out.res.stmt) = Count(InputTypes, "SELECT")
        /\ \A i \in 1..Len(out.res.stmt) : out.res.stmt[i].k = "SelectStmt"

\* two statements back to back, both returned
C7_Witness ==
    /\ out.call = "ParseAll"
    /\ InputTypes = <<"SELECT", "INT", "SELECT", "INT">>
    /\ out.res.err = NoError
    /\ Len(out.res.stmt) = 2

\* the input is SELECT <int> (op [ALL] SELECT <int>)+
SetOpChainTypes(types) ==
    /\ Len(types) >= 5
    /\ types[1] = "SELECT" /\ types[Len(types)] = "INT"
    /\ \A i \in 1..(Len(types) - 1) :
          CASE types[i] = "SELECT" -> types[i + 1] = "INT"
            [] types[i] = "INT" -> types[i + 1] \in {"UNION", "INTERSECT", "EXCEPT"}
            [] types[i] \in {"UNION", "INTERSECT", "EXCEPT"} -> types[i + 1] \in {"ALL", "SELECT"}
            [] types[i] = "ALL" -> types[i + 1] = "SELECT"
            [] OTHER -> FALSE

\* the operands of a left-nested SetOp tree, left to right
RECURSIVE SetOpOperands(_)
SetOpOperands(n) ==
    IF n.k = "SetOp" THEN SetOpOperands(n.Left) \o <<n.Right>> ELSE <<n>>

\* C8: a chain a UNION b UNION c (or INTERSECT, EXCEPT, with or without ALL)
\* parses to a SetOp tree nested to the left that keeps every operand.
C8_SetOpChain ==
    (FirstParse /\ SetOpChainTypes(InputTypes)) =>
        /\ Accepted(out.res)
        /\ out.res.stmt.k = "SetOp"
        /\ Len(SetOpOperands(out.res.stmt)) = Count(InputTypes, "SELECT")
        /\ \A i \in 1..Len(SetOpOperands(out.res.stmt)) :
              /\ SetOpOperands(out.res.stmt)[i].k = "SelectStmt"
              /\ SetOpOperands(out.res.stmt)[i].Columns[1].Expr.Value = <<Digits[i]>>

\* C9: operators group by level: in a OP1 b OP2 c a strictly tighter OP2
\* takes b first, a strictly looser OP2 takes (a OP1 b); IS is at level 5,
\* so a OP1 b IS NULL is (a OP1 b) IS NULL for OP1 at levels 6-11 and
\* a OP1 (b IS NULL) for OP1 at levels 1-3.
C9_Grouping ==
    LET ty == InputTypes
        e == out.res.stmt.Columns[1].Expr
        a == Col(Operands[1])
        b == Col(Operands[2])
        c == Col(Operands[3])
        isNull(x) == [k |-> "IsExpr", Expr |-> x, Not |-> FALSE, What |-> "IsNull"]
    IN (FirstParse /\ Len(ty) = 6 /\ ty[1] = "SELECT" /\ ty[2] = "IDENT" /\ ty[4] = "IDENT"
        /\ isBinaryOp(ty[3])) =>
          /\ (ty[6] = "IDENT" /\ isBinaryOp(ty[5]) /\ precedence(ty[5]) > precedence(ty[3])) =>
                (Accepted(out.res) /\ e = BinaryExpr(ty[3], a, BinaryExpr(ty[5], b, c)))
          /\ (ty[6] = "IDENT" /\ isBinaryOp(ty[5]) /\ precedence(ty[5]) < precedence(ty[3])) =>
                (Accepted(out.res) /\ e = BinaryExpr(ty[5], BinaryExpr(ty[3], a, b), c))
          /\ (ty[5] = "IS" /\ ty[6] = "NULL" /\ precedence(ty[3]) > precComparison) =>
                (Accepted(out.res) /\ e = isNull(BinaryExpr(ty[3], a, b)))
          /\ (ty[5] = "IS" /\ ty[6] = "NULL" /\ precedence(ty[3]) < precComparison) =>
                (Accepted(out.res) /\ e = BinaryExpr(ty[3], a, isNull(b)))

\* the input is SELECT x OP y OP z ... with one binary operator OP throughout
SameOpChain(types) ==
    /\ Len(types) >= 6 /\ Len(types) % 2 = 0
    /\ types[1] = "SELECT"
    /\ isBinaryOp(types[3])
    /\ \A i \in 2..Len(types) :
          IF i % 2 = 0 THEN types[i] = "IDENT" ELSE types[i] = types[3]

\* ((x1 OP x2) OP x3) ... over the first n operand names
RECURSIVE LeftDeep(_, _)
LeftDeep(op, n) ==
    IF n = 1 THEN Col(Operands[1])
    ELSE BinaryExpr(op, LeftDeep(op, n - 1), Col(Operands[n]))

\* C10: every binary operator of levels 1-11 associates to the left:
\* a OP b OP c is BinaryExpr(BinaryExpr(a, b), c), and likewise for longer
\* chains of the same operator.
C10_LeftAssoc ==
    (FirstParse /\ SameOpChain(InputTypes)) =>
        /\ Accepted(out.res)
        /\ out.res.stmt.Columns =
              <<Unaliased(LeftDeep(InputTypes[3], Len(InputTypes) \div 2))>>

\* a = b = c parsed as (a = b) = c
C10_Witness ==
    /\ FirstParse
    /\ InputTypes = <<"SELECT", "IDENT", "EQ", "IDENT", "EQ", "IDENT">>
    /\ Accepted(out.res)
    /\ out.res.stmt.Columns[1].Expr =
          BinaryExpr("EQ", BinaryExpr("EQ", Col(<<"a">>), Col(<<"b">>)), Col(<<"c">>))

Between(x, not, lo, hi) ==
    [k |-> "BetweenExpr", Expr |-> x, Not |-> not, Low |-> lo, High |-> hi]

IsConnective(n) == n.k = "BinaryExpr" /\ n.Op \in {"AND", "OR"}

----------------------------------------------------------------------------
\* C19: every CaseExpr of an accepted tree has at least one WHEN/THEN pair,
\* so a CASE without a WHEN clause is rejected with an error.
C19_CaseHasWhen ==
    FirstParse /\ Accepted(out.res) =>
        \A c \in Subtrees(out.res.stmt) : c.k = "CaseExpr" => c.Whens # <<>>

----------------------------------------------------------------------------
JoinExprs(n) == {j \in Subtrees(n) : j.k = "JoinExpr"}

\* C20: in an accepted tree a JoinExpr that is CROSS (a comma join included)
\* or NATURAL has neither an ON predicate nor a USING list, and every other
\* JoinExpr has at most one of the two.
C20_JoinCondition ==
    FirstParse /\ Accepted(out.res) =>
        \A j \in JoinExprs(out.res.stmt) :
            /\ j.Type = "JoinCross" \/ j.Natural => j.On = Nil /\ j.Using = <<>>
            /\ j.On = Nil \/ j.Using = <<>>

\* accepted trees with a CROSS join, a NATURAL join and joins carrying ON
\* and USING; and a CROSS join followed by ON is rejected
C20_Witness ==
    /\ FirstParse
    /\ \/ /\ Accepted(out.res)
          /\ \E j \in JoinExprs(out.res.stmt) : j.Type = "JoinCross"
          /\ \E j \in JoinExprs(out.res.stmt) : j.Type = "JoinInner" /\ j.On # Nil
       \/ /\ Accepted(out.res)
          /\ \E j \in JoinExprs(out.res.stmt) : j.Natural
          /\ \E j \in JoinExprs(out.res.stmt) : j.Using # <<>>

----------------------------------------------------------------------------
\* the data sources an InsertStmt carries: a VALUES row list, a SELECT, the
\* DEFAULT VALUES marker (one empty row)
InsertSources(s) ==
    (IF s.Values # <<>> /\ s.Values # << <<>> >> THEN {"values"} ELSE {})
    \cup (IF s.Select # Nil THEN {"select"} ELSE {})
    \cup (IF s.Values = << <<>> >> THEN {"default"} ELSE {})

\* C18: every InsertStmt of an accepted parse has exactly one data source:
\* a VALUES row list, a SELECT or the DEFAULT VALUES marker.
C18_InsertOneSource ==
    FirstParse /\ Accepted(out.res) /\ out.res.stmt.k = "InsertStmt" =>
        Cardinality(InsertSources(out.res.stmt)) = 1

----------------------------------------------------------------------------
(* Properties of Walk and Rewrite                                          *)

IsPrefix(p, q) == Len(p) <= Len(q) /\ SubSeq(q, 1, Len(p)) = p

IsProperPrefix(p, q) == Len(p) < Len(q) /\ IsPrefix(p, q)

\* p comes before q in pre-order: p is an ancestor of q, or p branches off
\* to an earlier child
PreOrderBefore(p, q) ==
    \/ IsProperPrefix(p, q)
    \/ \E i \in 1..Len(p) :
          /\ i <= Len(q)
          /\ SubSeq(p, 1, i - 1) = SubSeq(q, 1, i - 1)
          /\ p[i] < q[i]

Walked == visit.call = "Walk"

\* the calls a visitor that always returns true receives on the same tree
FullWalk == WalkFunc(out.res.stmt, {})

\* the positions below a node on which the visitor returned false
Skipped(calls, stop) ==
    { j \in 1..Len(calls) :
        \E i \in 1..Len(calls) :
            calls[i].node.k \in stop /\ IsProperPrefix(calls[i].path, calls[j].path) }

RECURSIVE Without(_, _, _)
Without(calls, skip, i) ==
    IF i > Len(calls) THEN <<>>
    ELSE (IF i \in skip THEN <<>> ELSE <<calls[i]>>) \o Without(calls, skip, i + 1)

\* the nodes of the calls made on the children of the node at path p
ChildNodes(calls, p) ==
    LET cs == SelectSeq(calls, LAMBDA c : Len(c.path) = Len(p) + 1 /\ IsPrefix(p, c.path))
    IN  [i \in 1..Len(cs) |-> cs[i].node]

\* s can be obtained from t by leaving elements out
RECURSIVE IsSubseq(_, _)
IsSubseq(s, t) ==
    IF s = <<>> THEN TRUE
    ELSE IF t = <<>> THEN FALSE
    ELSE IF Head(s) = Head(t) THEN IsSubseq(Tail(s), Tail(t))
    ELSE IsSubseq(s, Tail(t))

C15_WalkComplete ==
    Walked /\ visit.stop = {} =>
        \A n \in Subtrees(out.res.stmt) :
            \E i \in 1..Len(visit.calls) : visit.calls[i].node = n

Rewritten == visit.call = "Rewrite"

\* n with G applied to every node it holds in a field
MapChildren(n, G(_)) ==
    LET Each(ns) == [i \in 1..Len(ns) |-> G(ns[i])]
        O(c) == IF c = Nil THEN c ELSE G(c)
    IN  CASE n.k = "SelectStmt" ->
                [n EXCEPT !.Columns = Each(@), !.From = O(@), !.Where = O(@),
                          !.GroupBy = Each(@), !.Having = O(@)]
          [] n.k = "InsertStmt" ->
                [n EXCEPT !.Table = G(@), !.Columns = Each(@),
                          !.Values = [i \in 1..Len(@) |-> Each(@[i])], !.Select = O(@)]
          [] n.k = "TruncateStmt" -> [n EXCEPT !.Tables = Each(@)]
          [] n.k = "BinaryExpr" -> [n EXCEPT !.Left = G(@), !.Right = G(@)]
          [] n.k = "UnaryExpr" -> [n EXCEPT !.Operand = G(@)]
          [] n.k \in {"ParenExpr", "IsExpr", "CollateExpr", "AliasedExpr",
                      "AliasedTableExpr"} -> [n EXCEPT !.Expr = G(@)]
          [] n.k = "ParenTableExpr" -> [n EXCEPT !.Expr = O(@)]
          [] n.k = "FuncExpr" -> [n EXCEPT !.Args = Each(@)]
          [] n.k = "BetweenExpr" ->
                [n EXCEPT !.Expr = G(@), !.Low = G(@), !.High = G(@)]
          [] n.k = "CaseExpr" ->
                [n EXCEPT !.Operand = O(@),
                          !.Whens = [i \in 1..Len(@) |->
                                        [Cond |-> O(@[i].Cond), Result |-> O(@[i].Result)]],
                          !.Else = O(@)]
          [] n.k = "Subquery" -> [n EXCEPT !.Select = G(@)]
          [] n.k = "JoinExpr" -> [n EXCEPT !.Left = G(@), !.Right = O(@), !.On = O(@)]
          [] OTHER -> n

\* the tree in which every position holds what f returned for the node
\* originally there, f being called on a node after its children
RECURSIVE PostOrder(_, _)
PostOrder(fn, n) == Apply(fn, MapChildren(n, LAMBDA c : PostOrder(fn, c)))

\* C16: Rewrite calls f on a node only after f has been called on all of the
\* node's children, and in the tree it returns every position holds the node
\* f returned for the node originally at that position.
C16_RewritePostOrder ==
    Rewritten => visit.result = PostOrder(visit.fn, visit.before)

\* C17: Rewrite with the identity function returns a non-nil tree whose
\* formatted text equals the formatted text of the tree before rewriting.
C17_IdentityRewrite ==
    Rewritten /\ visit.fn = "identity" =>
        /\ visit.result # Nil
        /\ Format(visit.result) = Format(visit.before)

\* an identity rewrite of a statement with two different select expressions
C17_Witness ==
    /\ Rewritten /\ visit.fn = "identity"
    /\ visit.before.k = "SelectStmt"
    /\ Len(visit.before.Columns) > 1
    /\ visit.before.Columns[1] # visit.before.Columns[2]
    /\ Format(visit.result) # <<>>

----------------------------------------------------------------------------
(* Properties of the node pools                                            *)

\* the threads that hold a tree a Parse returned and have not recycled it
Holding == {t \in Threads : heap.th[t].pc = "holding"}

\* C12: recycling is invisible to later parses: whatever was parsed and
\* recycled before, on this thread or another, the tree Parse(s) returns
\* formats as the tree Parse(s) builds when no storage is ever recycled.
C12_RecyclingInvisible ==
    \A t \in Holding :
        Format(heap.th[t].tree) = Format(Parse(NewParser(heap.th[t].input)).stmt)

\* a Parse returned a tree whose statement node is recycled storage
C12_Witness ==
    \E t \in Holding :
        \E i \in 1..Len(heap.th[t].got) :
            /\ heap.th[t].got[i].from = "pool"
            /\ heap.th[t].got[i].at = <<>>
            /\ heap.th[t].got[i].slot = "node"
            /\ Format(heap.th[t].tree) # <<>>

\* the ids of the cells a tree is made of, one entry for every node and
\* every slice that has one
RECURSIVE TreeCells(_)
TreeCells(n) ==
    IF isNilExpr(n) THEN <<>>
    ELSE (IF "id" \in DOMAIN n THEN <<n.id>> ELSE <<>>)
         \o (IF n.k = "SelectStmt"
             THEN SelectSeq(<<n.ColumnsId, n.GroupById>>, LAMBDA c : c # 0)
             ELSE <<>>)
         \o (IF n.k = "FuncExpr" /\ n.ArgsId # 0 THEN <<n.ArgsId>> ELSE <<>>)
         \o Flatten([i \in 1..Len(AstChildren(n)) |-> TreeCells(AstChildren(n)[i])])

\* the cells thread t's tree is made of: those given to the Parse so far,
\* those of the tree it returned
LiveCells(t) ==
    CASE heap.th[t].pc = "parsing" ->
            [i \in 1..Len(heap.th[t].got) |-> heap.th[t].got[i].id]
      [] heap.th[t].pc = "holding" -> TreeCells(heap.th[t].tree)
      [] OTHER -> <<>>

\* the cells a Repool on thread t has still to release
DyingCells(t) ==
    IF heap.th[t].pc = "releasing"
    THEN [i \in 1..Len(heap.th[t].todo) |-> heap.th[t].todo[i].id]
    ELSE <<>>

\* every cell inside a pool, pool after pool
RECURSIVE CellsOf(_)
CellsOf(ps) ==
    IF ps = {} THEN <<>>
    ELSE LET p == CHOOSE q \in ps : TRUE
         IN  [i \in 1..Len(heap.pools[p]) |-> heap.pools[p][i].id] \o CellsOf(ps \ {p})

\* no id occurs twice in the sequence ids
Distinct(ids) == Cardinality({ids[i] : i \in 1..Len(ids)}) = Len(ids)

\* every cell somewhere: in a pool, in a live tree, waiting for release
RECURSIVE CellsAt(_)
CellsAt(ts) ==
    IF ts = {} THEN CellsOf(PoolNames)
    ELSE LET t == CHOOSE u \in ts : TRUE
         IN  LiveCells(t) \o DyingCells(t) \o CellsAt(ts \ {t})

\* C13: with threads parsing and recycling concurrently, no node and no
\* slice backing array is in two live trees or twice in one, none is in a
\* pool while a tree that has not been recycled holds it, and none is in
\* the pools twice.
C13_NoSharedStorage ==
    Distinct(CellsAt(Threads))

\* one thread is parsing on recycled storage while another one holds a
\* tree or is in the middle of a Repool, and the pools are not empty
C13_Witness ==
    \E t, u \in Threads :
        /\ t # u
        /\ heap.th[t].pc = "parsing"
        /\ \E i \in 1..Len(heap.th[t].got) : heap.th[t].got[i].from = "pool"
        /\ heap.th[u].pc = "releasing"
        /\ DyingCells(u) # <<>>
        /\ CellsOf(PoolNames) # <<>>

----------------------------------------------------------------------------
(* Properties of the lexer's one-token lookahead and of positions          *)

\* C21: in every interleaving of Peek and Next on one lexer, Peek returns
\* the item the next Next returns, a second Peek returns the same item and
\* leaves the lexer as it is, and the items Next has returned are a prefix
\* of the items it returns when Peek is never called.
C21_PeekIsLookahead ==
    ~SawEOF =>
        LET pk == LexPeek(lex) IN
        /\ LexNext(pk.l).item = pk.item
        /\ LexPeek(pk.l) = pk
        /\ LexNext(pk.l).l.pos = pk.l.pos
        /\ toks = SubSeq(LexAll(NewLexer(input)), 1, Len(toks))

\* Next has returned two items and a Peek has since looked at a third
C21_Witness ==
    /\ lex.peeked
    /\ Len(toks) >= 2
    /\ lex.item.Type # "EOF"
    /\ lex.item # toks[Len(toks)]

\* C22: the offsets of the items taken from the lexer, by Next or by Peek,
\* never decrease from one item to the next.
C22_OffsetsNonDecreasing ==
    /\ \A i \in 1..(Len(toks) - 1) : toks[i].Pos.Offset <= toks[i + 1].Pos.Offset
    /\ (lex.peeked /\ toks # <<>>) => toks[Len(toks)].Pos.Offset <= lex.item.Pos.Offset

\* the lexer backed up after `$a`, then after a bare `##`, and a Peek has
\* looked at the item after that
C22_Witness ==
    /\ Len(toks) >= 3
    /\ toks[1].Type = "ILLEGAL" /\ toks[1].Value = <<"$">>
    /\ toks[2].Type = "IDENT" /\ toks[2].Pos.Offset = 1
    /\ toks[3].Type = "COMMENT" /\ toks[3].Value = <<"#", "#">>
    /\ lex.peeked

\* the 1-based indices of the newline bytes among the first n bytes of inp
Newlines(inp, n) == {i \in 1..n : inp[i] = "\n"}

\* the largest member of a non-empty set of numbers
Max(S) == CHOOSE m \in S : \A n \in S : n <= m

\* C23: between any two scans the line counter is 1 plus the number of
\* newline bytes consumed so far, and the line-start offset is the offset
\* just after the last newline consumed (0 when there is none).
C23_LineAccounting ==
    LET seen == Newlines(input, lex.pos) IN
    /\ lex.line = 1 + Cardinality(seen)
    /\ lex.linePos = IF seen = {} THEN 0 ELSE Max(seen)

\* the position of the byte at 0-based offset o of inp: its line is 1 plus
\* the number of newlines before it, its column counts from the byte after
\* the last of them
PosOf(inp, o) ==
    LET before == Newlines(inp, o) IN
    [Offset |-> o, Line |-> 1 + Cardinality(before),
     Column |-> o - (IF before = {} THEN 0 ELSE Max(before)) + 1]

\* C24: every item the lexer has returned carries the offset, the 1-indexed
\* line and the 1-indexed column of its first byte (EOF: of the end of the
\* input), also when the item spans several lines.
C24_TokenPositions ==
    \A i \in 1..Len(toks) :
        /\ toks[i].Pos = PosOf(input, toks[i].Pos.Offset)
        /\ toks[i].Pos.Line >= 1 /\ toks[i].Pos.Column >= 1
        /\ IF toks[i].Type = "EOF" THEN toks[i].Pos.Offset = Len(input)
           ELSE /\ toks[i].Pos.Offset < Len(input)
                /\ input[toks[i].Pos.Offset + 1] \notin {" ", "\t", "\r", "\n"}

\* the byte at 0-based offset o of inp, "" beyond its end
ByteAt(inp, o) == IF o < Len(inp) THEN inp[o + 1] ELSE ""

\* the offset of the first newline at or after offset o of inp, the end of
\* inp when there is none
LineEnd(inp, o) ==
    CHOOSE e \in o..Len(inp) :
        /\ \A j \in o..(e - 1) : inp[j + 1] # "\n"
        /\ e = Len(inp) \/ inp[e + 1] = "\n"

\* the offset at which the identifier characters that begin at offset o of
\* inp end
IdentEnd(inp, o) ==
    CHOOSE e \in o..Len(inp) :
        /\ \A j \in o..(e - 1) : isIdentChar(inp[j + 1])
        /\ e = Len(inp) \/ ~isIdentChar(inp[e + 1])

\* the offsets of the items returned so far that begin with `#`
HashItems == {i \in 1..Len(toks) : ByteAt(input, toks[i].Pos.Offset) = "#"}

\* the number of `#` an identifier beginning at offset o may have: 2 for `##`
HashPrefix(inp, o) == IF ByteAt(inp, o + 1) = "#" THEN 2 ELSE 1

\* C25 as stated: an item that begins with `#` is an IDENT holding the `#`
\* or `##` and what follows when an identifier character follows the `#`
\* or `##`, and a COMMENT up to the end of the line in every other case.
C25_HashIdentOrComment ==
    \A i \in HashItems :
        LET o == toks[i].Pos.Offset
            n == HashPrefix(input, o)
            c == ByteAt(input, o + n)
        IN  IF c # "" /\ isIdentChar(c)
            THEN /\ toks[i].Type = "IDENT"
                 /\ Len(toks[i].Value) > n
                 /\ toks[i].Value = Slice(input, o, o + Len(toks[i].Value))
            ELSE /\ toks[i].Type = "COMMENT"
                 /\ toks[i].Value = Slice(input, o, LineEnd(input, o))

\* C25 amended: `#>>` and `#>` are operators; `#` or `##` followed by a
\* letter or `_` is an IDENT holding the prefix and every identifier
\* character after it; any other `#` that begins an item begins a COMMENT
\* that ends before the next newline.
C25_HashTokens ==
    \A i \in HashItems :
        LET o == toks[i].Pos.Offset
            n == HashPrefix(input, o)
            c == ByteAt(input, o + n)
        IN  IF ByteAt(input, o + 1) = ">"
            THEN IF ByteAt(input, o + 2) = ">"
                 THEN toks[i].Type = "HASHDGT" /\ toks[i].Value = <<"#", ">", ">">>
                 ELSE toks[i].Type = "HASHGT" /\ toks[i].Value = <<"#", ">">>
            ELSE IF c # "" /\ isIdentStart(c)
            THEN /\ toks[i].Type = "IDENT"
                 /\ toks[i].Value = Slice(input, o, IdentEnd(input, o + n))
            ELSE /\ toks[i].Type = "COMMENT"
                 /\ toks[i].Value = Slice(input, o, LineEnd(input, o))

\* the lexer has returned `##a1`, `#>`, `#>>`, `#a$`, a `##` comment and
\* a `#1` comment
C25_Witness ==
    /\ input \in HashInputs
    /\ Len(toks) = 7
    /\ [i \in 1..6 |-> toks[i].Type] =
           <<"IDENT", "HASHGT", "HASHDGT", "IDENT", "COMMENT", "COMMENT">>
    /\ toks[5].Value = <<"#", "#", " ", "a">>
    /\ toks[7].Type = "EOF"

\* C26: the single-quoted text the formatter writes for a string value
\* lexes as exactly one STRING item, whose text is that value, then EOF.
C26_LiteralRoundTrip ==
    out.call = "Next" =>
        /\ Len(toks) = 2
        /\ toks[1].Type = "STRING"
        /\ toks[1].Value = input
        /\ toks[2].Type = "EOF"

\* a value with a backslash, a quote and a newline has been written and
\* lexed
C26_Witness ==
    /\ out.call = "Next"
    /\ {"\\", "'", "\n"} \subseteq {input[i] : i \in 1..Len(input)}
    /\ input[Len(input)] = "\\"
    /\ Len(out.texts[1]) > Len(input) + 3

\* the passes ParseAll's loop makes from the parser p on: the parser before
\* each pass and the parser after the last one
RECURSIVE Passes(_)
Passes(p) ==
    IF curIs(p, "EOF") \/ p.panicked THEN <<p>>
    ELSE LET b == ParseAllBody(p, <<>>)
         IN  IF b.brk THEN <<p, b.p>> ELSE <<p>> \o Passes(b.p)

\* C27: a scan on input that is not exhausted consumes at least one byte,
\* the cursor never passes the end of the input, EOF is returned after at
\* most len(input) other items, and every pass of ParseAll's loop takes at
\* least one item from the lexer, so that the loop makes at most
\* len(input) passes.
C27_Progress ==
    /\ lex.pos <= Len(input)
    /\ (~lex.peeked /\ lex.pos < Len(input)) =>
           /\ LexNext(lex).l.pos > lex.pos
           /\ LexNext(lex).l.pos <= Len(input)
    /\ Len(toks) <= Len(input) + 1
    /\ out.call = "ParseAll" =>
           LET ps == Passes(NewParser(input)) IN
           /\ \A i \in 1..(Len(ps) - 1) :
                  \/ ps[i + 1].panicked
                  \/ ps[i + 1].cur.Pos.Offset > ps[i].cur.Pos.Offset
           /\ Len(ps) - 1 <= Len(input)
           /\ ps[Len(ps)].panicked \/ curIs(ps[Len(ps)], "EOF")

\* ParseAll has returned after three passes or more on an input on which
\* the lexer backs up, and the lexer driven directly has reached EOF
C27_Witness ==
    /\ out.call = "ParseAll"
    /\ Len(Passes(NewParser(input))) >= 4
    /\ \E i \in 1..Len(toks) : toks[i].Type = "ILLEGAL" /\ toks[i].Value = <<"$">>
    /\ \E i \in 1..Len(toks) : toks[i].Type = "COMMENT"
    /\ SawEOF

\* the input holds no token other than comments
OnlyComments(inp) == \A t \in {TokenTypes(inp)[i] : i \in 1..Len(TokenTypes(inp))} : t = "COMMENT"

\* C28: Parse returns a nil statement and a nil error exactly when the
\* input holds no token other than comments; on every other input it
\* returns either an error and a nil statement or a statement that is not
\* nil, not even a nil pointer inside the interface, and a nil error.
C28_ParseResult ==
    (out.call = "Parse" /\ out.texts = <<>>) =>
        /\ ~out.res.panicked
        /\ IF OnlyComments(input)
           THEN out.res.stmt = Nil /\ out.res.err = NoError
           ELSE \/ out.res.err # NoError /\ out.res.stmt = Nil
                \/ out.res.err = NoError /\ ~isNilExpr(out.res.stmt)

\* what the caller of Parse or ParseAll gets to see of a result
Visible(res) ==
    [panicked |-> res.panicked, stmt |-> res.stmt, err |-> res.err,
     errors |-> res.errors]

\* C29: whatever the pooled Parser and Lexer were used for before, a call
\* through the pools gives the result a parser made by New gives for the
\* same input.
C29_PooledAsNew ==
    /\ out.call = "Parse" => Visible(out.res) = Visible(Parse(NewParser(input)))
    /\ out.call = "ParseAll" => Visible(out.res) = Visible(ParseAll(NewParser(input)))

\* an input was parsed and accepted with a Lexer that came from the pool
\* with a peeked item and its line counter past line 1, and a Parser that
\* came with recorded errors and a current token other than EOF
C29_Witness ==
    /\ out.call = "Parse"
    /\ Accepted(out.res)
    /\ out.took.peeked
    /\ out.took.line > 1
    /\ out.took.input # input
    /\ out.took.errors > 0
    /\ out.took.cur # "EOF"

----------------------------------------------------------------------------
(* Properties of the storage the Get constructors hand out                 *)

\* what thread t's parse was handed, request after request
HandedOut(t) == {heap.th[t].got[i] : i \in 1..Len(heap.th[t].got)}

\* the storage got with everything it held when handed out wiped
Wiped(got) ==
    [i \in 1..Len(got) |->
        [got[i] EXCEPT !.stale = IF got[i].slot = "node" THEN Zero ELSE <<>>]]

\* C30: after any parses and recycles, a node a Get constructor hands out
\* has every field at its zero value and a slice a Get...Slice constructor
\* hands out has length 0; the cells waiting in the pools are in that state
\* too, and so the tree a Parse returns holds nothing of a recycled tree:
\* it is the tree the parse builds in wiped storage.
C30_HandedOutZeroed ==
    /\ \A t \in Threads : \A c \in HandedOut(t) :
          c.stale = IF c.slot = "node" THEN Zero ELSE <<>>
    /\ \A p \in PoolNames : \A i \in 1..Len(heap.pools[p]) :
          heap.pools[p][i].val = NewValue(p)
    /\ \A t \in Holding :
          heap.th[t].tree =
              Pooled(Labelled(Parse(NewParser(heap.th[t].input)).stmt, <<>>),
                     Wiped(heap.th[t].got))

\* thread u parsed `SELECT DISTINCT * FROM t` in the one pooled statement
\* node and recycled it, and thread t then parsed a statement without
\* DISTINCT and without FROM in that node and in a recycled column slice
C30_Witness ==
    \E t \in Holding : \E u \in Threads \ {t} :
        /\ heap.th[u].pc = "idle"
        /\ ~heap.th[u].miss
        /\ Len(heap.th[u].input) > 8
        /\ heap.pools["SelectStmt"] = <<>>
        /\ \E c \in HandedOut(t) : c.from = "pool" /\ c.slot = "node" /\ c.at = <<>>
        /\ \E c \in HandedOut(t) : c.from = "pool" /\ c.slot = "Columns"
        /\ ~heap.th[t].tree.Distinct
        /\ heap.th[t].tree.From = Nil

====
